---- MODULE Spec2Model ----
(***************************************************************************)
(* Transport correlation and delivery engine of magicbutton/providers.     *)
(*                                                                         *)
(*   Ext_*     ChromeExtensionTransport                                    *)
(*             (providers/browser-extention-server/src/                    *)
(*              chrome-extension-transport.ts)                             *)
(*   Chrome_*  ChromeTransport (packages/chrome, src/unnamed/part_003)     *)
(*   Nats_*    NatsTransport (packages/nats/src/nats-transport.ts)         *)
(*                                                                         *)
(* Each transport is an independent object; SpecExt, SpecChrome, SpecNats  *)
(* run one of them and SpecTransports runs ChromeTransport and             *)
(* NatsTransport side by side.                                             *)
(***************************************************************************)
EXTENDS Integers, Sequences, FiniteSets, Bags, TLC

(***************************************************************************)
(* Bounds of the model.                                                    *)
(***************************************************************************)
\* send() calls made on one ChromeExtensionTransport
MaxRequests == 2
\* ports chrome.runtime.connect hands to one ChromeTransport
MaxPorts == 2
\* reconnect timers of one ChromeTransport pending at once
MaxTimers == 2
\* connections the nats library opens for one NatsTransport
MaxConns == 2
\* disconnect() calls of a NatsTransport in flight at once
MaxDisconnects == 2
\* subscribe() calls made on one ChromeTransport
MaxSubs == 3
\* inbound requests one transport hands to a request handler
MaxJobs == 2

(***************************************************************************)
(* Program constants.                                                      *)
(***************************************************************************)
MESSAGE_TIMEOUT == 30000

(***************************************************************************)
(* Input domains.                                                          *)
(***************************************************************************)
\* message ids: chosen by the caller of send() (message.id)
Ids == {"m1", "m2"}
\* a missing / empty correlationId (falsy in the source)
NoId == "none"
\* application message types; "response" is the reserved response type
MsgTypes == {"page:read", "settings:get"}
\* the messages handed to send(): <<message.id, message.type>>
Messages == {<<"m1", "page:read">>, <<"m2", "settings:get">>}
ResponseType == "response"
\* types onMessage() is called with on the requesting side: a handler under
\* the reserved type is the only one a response message can reach
HandlerTypes == {ResponseType}
Payloads == {"p1"}
\* response error payloads; NoErr is an absent (falsy) error
NoErr == "noerr"
Errors == {"e1"}
\* how a handler settles: it fulfils, it throws or rejects with a value that
\* has properties (an Error, a string, ...), or it rejects with undefined or
\* null
HandlerOutcomes == {"resolves", "rejects", "rejectsNullish"}

VARIABLES
    \* ---- ChromeExtensionTransport ----
    responseHandlers,   \* Map correlationId -> index (in requests) of the request
                        \* whose {resolve, reject, timeout} the entry holds
    messageHandlers,    \* Map type -> handler: the set of types with a handler
    listening,          \* handleIncomingMessage is registered with
                        \* chrome.runtime.onMessage
    requests,           \* the promises made by send(), in send order: per
                        \* request its id, type, timeout timer, chrome
                        \* callback, the number of resolve/reject invocations
                        \* so far and what the first of them settled it with
    inbound,            \* branch taken by the most recent handleIncomingMessage
                        \* call when it was the last step, "none" otherwise
    \* ---- ChromeTransport ----
    config,             \* this.config after the constructor
    port,               \* this.port: 0 (null) or the index of the port in ports
    isConnected,        \* this.isConnected
    reconnectAttempts,  \* this.reconnectAttempts
    connectPromise,     \* this.connectPromise: "null", or the state of the
                        \* promise it holds ("resolved", "rejected")
    reconnectTimers,    \* delays of the pending setTimeout callbacks scheduled
                        \* by handleReconnect
    retriesMade,        \* history: the retry-timer callbacks that called
                        \* chrome.runtime.connect since the last successful
                        \* connection (or since construction)
    ports,              \* the ports chrome.runtime.connect returned: "open",
                        \* "closing" (the other end is gone, onDisconnect not
                        \* yet delivered), "lost" (onDisconnect delivered),
                        \* "closedLocal" (port.disconnect() was called)
    chromeOut           \* what the last step did, as its caller and chrome
                        \* see it: the operation, its result, whether it
                        \* called chrome.runtime.connect / port.postMessage /
                        \* port.disconnect
    ,
    \* ---- NatsTransport ----
    nats,               \* this.nats: 0 (null) or the index of the connection
    subscriptions,      \* this.subscriptions: indices into natsSubs
    connected,          \* this.connected
    connecting,         \* this.connecting
    connectPc,          \* where the connect() call in flight is suspended:
                        \* "idle", "connect" (await connect(...)), "setup"
                        \* (await this.setupSubscriptions())
    disconnects,        \* the disconnect() calls in flight, as a bag (two
                        \* calls may stand at the same point);
                        \* per call where it is suspended: "unsub" (await
                        \* sub.unsubscribe(), at index `at` of the array its
                        \* loop iterates) or "close" (await
                        \* this.nats.close()), and the array of the loop:
                        \* this.subscriptions itself (live) or, once
                        \* another call assigned a new array to
                        \* this.subscriptions, what it held then
    natsConns,          \* the connections the library opened: "open"/"closed"
    natsSubs,           \* the subscriptions made: [conn, subject, active]
    statusLoops,        \* connections whose status() iterator the transport reads
    raced,              \* history: the latest disconnect() was called while a
                        \* connect() was in flight, and no connect attempt
                        \* was started since
    natsOut,            \* what the last step did, as its caller and the
                        \* library see it
    \* ---- ChromeTransport: subscriptions and request handlers ----
    eventHandlers,      \* Map eventType -> Set of wrappers, each Set as the
                        \* sequence of its elements in insertion order; a
                        \* wrapper is named by the index of its subscribe() call
    subs,               \* the subscribe() calls made so far: [type]
    unsubscribed,       \* history: the subscribe() calls whose unsubscribe
                        \* function has been called
    requestHandlers,    \* Map type -> handler: the set of types with a handler
    jobs,               \* the inbound requests handleMessage() is suspended
                        \* on: [type, requestId, at]
    routerOut,          \* what handleMessage() or publish() did when it was
                        \* the last step: the subscriptions invoked, in
                        \* order, those whose handler threw, the messages
                        \* posted on the port and whether an exception left
                        \* handleMessage()
    \* ---- ChromeExtensionTransport: broadcast and message handlers ----
    extConfig,          \* this.config: componentType, handleResponses
    extJobs,            \* the promise chains started around a handler:
                        \* [id, type, sendResponse, at], at the handler or,
                        \* after sendResponse threw in .then, at .catch
    extBroadcasts,      \* the broadcast() calls of a background transport
                        \* suspended at `await chrome.tabs.query({})`:
                        \* [id, type]
    serverOut,          \* what broadcast() or the promise chain around a
                        \* handler did when it was the last step
    \* ---- ExtensionAuthorizationProvider ----
    authConfig,         \* this.config after the constructor
    authInput,          \* the arguments of the call to be made
    authOut,            \* the result of the call once it is made
    \* ---- ChromeTransport: one event dispatch, handler by handler ----
    dispatch            \* the handler loop of handleMessage() while the
                        \* handlers it calls call back into the transport:
                        \* the Set it iterates, whether that Set is still
                        \* the one in eventHandlers, the wrappers visited,
                        \* those subscribed when the message arrived and
                        \* those invoked so far
    ,
    \* ---- NatsTransport: inbound traffic ----
    messageCallback,    \* this.messageCallback is set (receive() was called)
    natsIn              \* the message the subscriptions were last handed
                        \* and the messageCallback invocations it caused,
                        \* when that was the last step

extVars == <<responseHandlers, messageHandlers, listening, requests, inbound>>

natsVars == <<nats, subscriptions, connected, connecting, connectPc, disconnects,
              natsConns, natsSubs, statusLoops, raced, natsOut>>

chromeVars == <<config, port, isConnected, reconnectAttempts, connectPromise,
                reconnectTimers, retriesMade, ports, chromeOut>>

routerVars == <<eventHandlers, subs, unsubscribed, requestHandlers, jobs, routerOut>>

serverVars == <<extConfig, extJobs, extBroadcasts, serverOut>>

authVars == <<authConfig, authInput, authOut>>

dispatchVars == <<dispatch>>

natsInVars == <<messageCallback, natsIn>>

vars == <<extVars, chromeVars, natsVars, routerVars, serverVars, authVars,
          dispatchVars, natsInVars>>

(***************************************************************************)
(* Map helpers (ES Map set / delete).                                      *)
(***************************************************************************)
MapSet(m, k, v) == [x \in (DOMAIN m) \cup {k} |-> IF x = k THEN v ELSE m[x]]

MapDelete(m, k) == [x \in (DOMAIN m) \ {k} |-> m[x]]

EmptyMap == [x \in {} |-> 0]

(***************************************************************************)
(* Promise callbacks and timers of one request.                            *)
(***************************************************************************)
\* new Promise((resolve, reject) => ...) with its timeout armed and the chrome
\* sendMessage callback outstanding
\* timer: "armed" (set, callback not yet run), "fired" (callback ran),
\* "cleared" (clearTimeout)
\* thrown: the executor threw (at the sendMessage call), which rejected the
\* promise with what was thrown, after the timeout was armed
\* cb: "pending" (chrome holds the callback), "done" (chrome ran it), "none"
\* (the sendMessage call threw, chrome never took the callback)
NewRequest(id, type) ==
    [id |-> id, type |-> type, delay |-> MESSAGE_TIMEOUT,
     timer |-> "armed", cb |-> "pending", thrown |-> FALSE,
     outcome |-> [kind |-> "pending", val |-> NoErr], calls |-> 0]

\* one more invocation of a callback of the request's promise: the first one
\* settles the promise unless the executor threw, a later one leaves the
\* settled promise as it is
Invoke(req, kind, val) ==
    [req EXCEPT !.calls = @ + 1,
                !.outcome = IF req.calls = 0 /\ ~req.thrown
                            THEN [kind |-> kind, val |-> val] ELSE @]

\* reject(err)
Reject(req, err) == Invoke(req, "reject", err)

\* resolve(payload)
Resolve(req, payload) == Invoke(req, "resolve", payload)

\* clearTimeout(timeout): no effect on a timer that fired or was cleared
ClearTimeout(req) ==
    IF req.timer = "armed" THEN [req EXCEPT !.timer = "cleared"] ELSE req

\* new Error(`Message timeout: ${message.data.type}`)
TimeoutError(type) == <<"Message timeout", type>>

\* new Error(chrome.runtime.lastError.message || 'Failed to send message')
LastErrorError == <<"lastError">>

\* what chrome.runtime.sendMessage / chrome.tabs.sendMessage throws when the
\* call itself fails (extension context invalidated, a message that cannot
\* be serialised)
SendThrown == <<"sendMessage threw">>

\* the state of the caller's promise: a throw in the executor rejects it at
\* once, otherwise the first callback invocation decides
Settled(req) == req.thrown \/ req.calls > 0

Outcome(req) ==
    IF req.thrown THEN [kind |-> "reject", val |-> SendThrown] ELSE req.outcome

(***************************************************************************)
(* ChromeExtensionTransport                                                *)
(***************************************************************************)
\* Array.prototype.splice(i, 1) on a sequence
RemoveAt(seq, i) == SubSeq(seq, 1, i - 1) \o SubSeq(seq, i + 1, Len(seq))

\* componentType decides the listeners and the route of broadcast();
\* handleResponses is compared with false
ComponentTypes == {"background", "content"}

ServerConfig(componentType, handleResponses) ==
    [componentType |-> componentType, handleResponses |-> handleResponses]

ServerNoOut == [op |-> "none", recipients |-> <<>>, attempted |-> <<>>,
                reported |-> 0,
                result |-> "none", returned |-> FALSE, id |-> "none",
                settled |-> "none", calls |-> 0, posted |-> <<>>]

\* a background transport with handleResponses left undefined
ServerIdle ==
    /\ extConfig = ServerConfig("background", TRUE)
    /\ extJobs = <<>>
    /\ extBroadcasts = <<>>
    /\ serverOut = ServerNoOut

\* a content-script transport with handleResponses left undefined: its one
\* listener is the chrome.runtime.onMessage listener
ServerContent ==
    /\ extConfig = ServerConfig("content", TRUE)
    /\ extJobs = <<>>
    /\ extBroadcasts = <<>>
    /\ serverOut = ServerNoOut

ServerInit ==
    /\ extConfig \in {ServerConfig(c, h) : c \in ComponentTypes, h \in BOOLEAN}
    /\ extJobs = <<>>
    /\ extBroadcasts = <<>>
    /\ serverOut = ServerNoOut

\* a call that starts no handler, sends no response and broadcasts nothing
ServerStays ==
    /\ serverOut' = ServerNoOut
    /\ UNCHANGED <<extConfig, extJobs, extBroadcasts>>

ExtInit ==
    /\ responseHandlers = EmptyMap
    /\ messageHandlers = {}
    /\ listening = TRUE
    /\ requests = <<>>
    /\ inbound = "none"

\* send() -> sendToTab / sendViaRuntime: both routes arm the timeout, store the
\* entry under message.data.id and hand the message to chrome.
\* throws: the sendMessage call throws.  No try/catch surrounds it, so the
\* throw leaves the executor: the promise is rejected with what was thrown,
\* the timeout stays armed and the entry stays in the table
Ext_send(id, type, throws) ==
    /\ Len(requests) < MaxRequests
    /\ requests' = Append(requests,
                          IF throws
                          THEN [NewRequest(id, type) EXCEPT
                                   !.thrown = TRUE, !.cb = "none"]
                          ELSE NewRequest(id, type))
    /\ responseHandlers' = MapSet(responseHandlers, id, Len(requests) + 1)
    /\ inbound' = "none"
    /\ UNCHANGED <<messageHandlers, listening>>
    /\ ServerStays

\* every timer has the same delay, so the runtime runs the callbacks in the
\* order the timers were set: the timers set before that of request r have
\* run or were cleared
TimersBeforeRan(r) == \A q \in 1..(r - 1) : requests[q].timer # "armed"

\* the setTimeout callback of request r
Ext_timeout(r) ==
    /\ requests[r].timer = "armed"
    /\ TimersBeforeRan(r)
    /\ responseHandlers' = MapDelete(responseHandlers, requests[r].id)
    /\ requests' = [requests EXCEPT
                      ![r] = Reject([@ EXCEPT !.timer = "fired"],
                                    TimeoutError(requests[r].type))]
    /\ inbound' = "none"
    /\ UNCHANGED <<messageHandlers, listening>>
    /\ ServerStays

\* the chrome sendMessage callback of request r with chrome.runtime.lastError set
Ext_callbackLastError(r) ==
    /\ requests[r].cb = "pending"
    /\ responseHandlers' = MapDelete(responseHandlers, requests[r].id)
    /\ requests' = [requests EXCEPT
                      ![r] = Reject(ClearTimeout([@ EXCEPT !.cb = "done"]),
                                    LastErrorError)]
    /\ inbound' = "none"
    /\ UNCHANGED <<messageHandlers, listening>>
    /\ ServerStays

\* what chrome hands the sendMessage callback when lastError is unset:
\* undefined (the answer comes later through the message listener) or an
\* immediate response {data: {error}} / {data: {payload}}
CallbackResponses ==
    {[has |-> FALSE, error |-> NoErr, payload |-> "p1"]}
    \cup {[has |-> TRUE, error |-> e, payload |-> "p1"] : e \in Errors}
    \cup {[has |-> TRUE, error |-> NoErr, payload |-> p] : p \in Payloads}

\* the chrome sendMessage callback of request r without lastError
Ext_callbackResponse(r, response) ==
    /\ requests[r].cb = "pending"
    /\ IF response.has
       THEN /\ responseHandlers' = MapDelete(responseHandlers, requests[r].id)
            /\ requests' = [requests EXCEPT
                  ![r] = IF response.error # NoErr
                         THEN Reject(ClearTimeout([@ EXCEPT !.cb = "done"]),
                                     response.error)
                         ELSE Resolve(ClearTimeout([@ EXCEPT !.cb = "done"]),
                                      response.payload)]
       ELSE /\ requests' = [requests EXCEPT ![r].cb = "done"]
            /\ UNCHANGED responseHandlers
    /\ inbound' = "none"
    /\ UNCHANGED <<messageHandlers, listening>>
    /\ ServerStays

\* inbound wrapped messages {namespace, data: {type, id, correlationId, error,
\* payload}}; ns tells whether message.namespace is the transport's namespace
InMsg(ns, type, id, correlationId, error, payload) ==
    [ns |-> ns, type |-> type, id |-> id, correlationId |-> correlationId,
     error |-> error, payload |-> payload]

\* one message of another namespace, every response (with or without a
\* correlationId, with an error or a payload) and every application message
InMessages ==
    {InMsg(FALSE, "page:read", "m1", NoId, NoErr, "p1")}
    \cup {InMsg(TRUE, ResponseType, "m1", c, e, "p1") :
             c \in Ids \cup {NoId}, e \in Errors}
    \cup {InMsg(TRUE, ResponseType, "m1", c, NoErr, p) :
             c \in Ids \cup {NoId}, p \in Payloads}
    \cup {InMsg(TRUE, m[2], m[1], NoId, NoErr, "p1") : m \in Messages}

\* mutant: a response is only treated as one when its correlationId is a key
\* of the table; any other response falls through to the message handlers
IncomingBranch_FallThrough(msg) ==
    IF ~msg.ns THEN "foreign"
    ELSE IF msg.type = ResponseType /\ msg.correlationId \in DOMAIN responseHandlers
         THEN "settled"
         ELSE IF msg.type \in messageHandlers THEN "handled" ELSE "unhandled"

\* the branch of handleIncomingMessage a message takes
IncomingBranch(msg) ==
    IF ~msg.ns THEN "foreign"
    ELSE IF msg.type = ResponseType /\ msg.correlationId # NoId
         THEN IF msg.correlationId \in DOMAIN responseHandlers
              THEN "settled" ELSE "dropped"
         ELSE IF msg.type \in messageHandlers THEN "handled" ELSE "unhandled"

\* a listener that calls handleIncomingMessage is registered: the one on
\* chrome.runtime.onMessage, which close() removes, or, in a background
\* transport, the one the constructor put on chrome.runtime.onConnect and
\* those it puts on the ports that connect, which close() leaves in place
HandlerReachable == listening \/ extConfig.componentType = "background"

\* the handler branch of handleIncomingMessage (lines 84-134): the handler
\* found under the type is started in a promise chain, which answers later
\* through sendResponse, and the listener returns
\* config.handleResponses !== false; every other branch returns false
StartHandler(msg, sendResponse) ==
    IF IncomingBranch(msg) = "handled"
    THEN /\ Len(extJobs) < MaxJobs
         /\ extJobs' = Append(extJobs, [id |-> msg.id, type |-> msg.type,
                                        sendResponse |-> sendResponse,
                                        at |-> "handler"])
         /\ serverOut' = [ServerNoOut EXCEPT
                             !.op = "receive", !.id = msg.id,
                             !.returned = extConfig.handleResponses]
    ELSE /\ serverOut' = [ServerNoOut EXCEPT !.op = "receive", !.id = msg.id]
         /\ UNCHANGED extJobs

\* handleIncomingMessage(message, sender, sendResponse), called by the
\* chrome.runtime.onMessage listener or by the onMessage listener of a port.
\* sendResponse: the listener was given one: chrome.runtime.onMessage hands
\* one over, and so does the port listener of the background's onConnect
\* listener (a port.postMessage wrapper), the only caller left after close()
Ext_handleIncomingMessage(msg, sendResponse) ==
    /\ HandlerReachable
    /\ ~listening => sendResponse
    /\ inbound' = IncomingBranch(msg)
    /\ IF IncomingBranch(msg) = "settled"
       THEN LET r == responseHandlers[msg.correlationId] IN
            /\ responseHandlers' = MapDelete(responseHandlers, msg.correlationId)
            /\ requests' = [requests EXCEPT
                  ![r] = IF msg.error # NoErr
                         THEN Reject(ClearTimeout(@), msg.error)
                         ELSE Resolve(ClearTimeout(@), msg.payload)]
       ELSE UNCHANGED <<responseHandlers, requests>>
    /\ StartHandler(msg, sendResponse)
    /\ UNCHANGED <<messageHandlers, listening, extConfig, extBroadcasts>>

\* the response the promise chain hands to sendResponse
ExtResponse(job, kind) ==
    [type |-> ResponseType, correlationId |-> job.id, kind |-> kind]

\* the handler of job j settles and the first callback of the chain runs:
\* .then sends the result, .catch sends the error, both only
\* `if (sendResponse && this.config.handleResponses !== false)`.
\* After a rejection with undefined or null the .catch callback throws a
\* TypeError at `error.code`, before it calls sendResponse.
\* sendThrows: the sendResponse call throws (postMessage on a disconnected
\* port, a result that cannot be serialised).  A throw in .then rejects the
\* promise .catch hangs on: its callback runs in a later turn; a throw in
\* .catch is left unhandled
Ext_handlerSettles(j, outcome, sendThrows) ==
    /\ extJobs[j].at = "handler"
    /\ LET job == extJobs[j]
           ok == outcome = "resolves"
           kind == IF ok THEN "result" ELSE "error"
           responds == job.sendResponse /\ extConfig.handleResponses
           typeError == responds /\ outcome = "rejectsNullish" IN
       /\ sendThrows => responds /\ ~typeError
       /\ serverOut' = [ServerNoOut EXCEPT
             !.op = "settle", !.id = job.id,
             !.settled = IF ok THEN "resolved" ELSE "rejected",
             !.calls = IF ~responds \/ typeError THEN 0 ELSE 1,
             !.posted = IF responds /\ ~sendThrows /\ ~typeError
                        THEN <<ExtResponse(job, kind)>> ELSE <<>>,
             !.result = IF sendThrows /\ ok THEN "pending"
                        ELSE IF sendThrows \/ typeError
                             THEN "rejected" ELSE "resolved"]
       /\ extJobs' = IF sendThrows /\ ok
                     THEN [extJobs EXCEPT ![j].at = "catch"]
                     ELSE RemoveAt(extJobs, j)
    /\ inbound' = "none"
    /\ UNCHANGED <<responseHandlers, messageHandlers, listening, requests,
                   extConfig, extBroadcasts>>

\* the .catch callback of job j, run with what sendResponse threw in .then:
\* an Error, so that `error.code` does not throw; it calls sendResponse once
\* more, with the error response
Ext_catchCallback(j, sendThrows) ==
    /\ extJobs[j].at = "catch"
    /\ serverOut' = [ServerNoOut EXCEPT
          !.op = "catch", !.id = extJobs[j].id,
          !.settled = "resolved",
          !.calls = 1,
          !.posted = IF sendThrows THEN <<>>
                     ELSE <<ExtResponse(extJobs[j], "error")>>,
          !.result = IF sendThrows THEN "rejected" ELSE "resolved"]
    /\ extJobs' = RemoveAt(extJobs, j)
    /\ inbound' = "none"
    /\ UNCHANGED <<responseHandlers, messageHandlers, listening, requests,
                   extConfig, extBroadcasts>>

\* tabs chrome.tabs.query hands to one broadcast() call
MaxTabs == 3

\* broadcast() calls of a background transport waiting for chrome.tabs.query
MaxBroadcasts == 1

\* what chrome.tabs.sendMessage / chrome.runtime.sendMessage does for one
\* recipient: the promise it returns fulfils, or rejects (no receiver in the
\* tab), or the call itself throws
Deliveries == {"delivered", "rejects", "throws"}

\* a tab chrome.tabs.query lists without an id: `if (tab.id)` skips it
NoTabId == "noId"

HasTabId(tab) == tab # NoTabId

\* the recipients tabs.forEach sends to: the tabs with an id, all of them
\* or those up to the first one whose sendMessage call throws
Attempted(tabs) ==
    SelectSeq(IF \E k \in DOMAIN tabs : tabs[k] = "throws"
              THEN SubSeq(tabs, 1, CHOOSE k \in DOMAIN tabs :
                                      /\ tabs[k] = "throws"
                                      /\ \A l \in 1..(k - 1) : tabs[l] # "throws")
              ELSE tabs,
              HasTabId)

\* what a run over the recipients leaves of the broadcast() promise
Broadcasted(recipients) ==
    IF \E k \in DOMAIN recipients : recipients[k] = "throws"
    THEN "rejected" ELSE "resolved"

\* broadcast(message) up to its first suspension.  A background transport
\* stops at `await chrome.tabs.query({})` with nothing sent; any other
\* component sends one runtime message marked action: 'broadcast', whose
\* rejection an empty catch swallows.
\* recipients: what the sendMessage calls of this step would do: none for a
\* background transport, the one runtime message otherwise
Ext_broadcast(id, type, recipients) ==
    /\ IF extConfig.componentType = "background"
       THEN /\ recipients = <<>>
            /\ Len(extBroadcasts) < MaxBroadcasts
            /\ extBroadcasts' = Append(extBroadcasts, [id |-> id, type |-> type])
            /\ serverOut' = [ServerNoOut EXCEPT
                                !.op = "broadcast", !.id = id,
                                !.result = "pending"]
       ELSE /\ Len(recipients) = 1
            /\ recipients[1] \in Deliveries
            /\ serverOut' = [ServerNoOut EXCEPT
                                !.op = "broadcast", !.id = id,
                                !.recipients = recipients,
                                !.attempted = Attempted(recipients),
                                !.result = Broadcasted(recipients)]
            /\ UNCHANGED extBroadcasts
    /\ inbound' = "none"
    /\ UNCHANGED <<responseHandlers, messageHandlers, listening, requests,
                   extConfig, extJobs>>

\* chrome.tabs.query({}) fulfils with tabs and broadcast() b resumes:
\* tabs.forEach sends to every tab that has an id; tabs: per tab, that it
\* has no id or what the sendMessage call does.
\* Rejections are swallowed by an empty catch, a throw ends the loop and
\* rejects the promise of broadcast()
Ext_tabsQueried(b, tabs) ==
    /\ serverOut' = [ServerNoOut EXCEPT
                        !.op = "tabs", !.id = extBroadcasts[b].id,
                        !.recipients = tabs,
                        !.attempted = Attempted(tabs),
                        !.result = Broadcasted(tabs)]
    /\ extBroadcasts' = RemoveAt(extBroadcasts, b)
    /\ inbound' = "none"
    /\ UNCHANGED <<responseHandlers, messageHandlers, listening, requests,
                   extConfig, extJobs>>

\* chrome.tabs.query({}) rejects: the await throws, broadcast() b rejects
\* and no sendMessage call is made
Ext_tabsQueryRejects(b) ==
    /\ serverOut' = [ServerNoOut EXCEPT
                        !.op = "tabs", !.id = extBroadcasts[b].id,
                        !.result = "rejected"]
    /\ extBroadcasts' = RemoveAt(extBroadcasts, b)
    /\ inbound' = "none"
    /\ UNCHANGED <<responseHandlers, messageHandlers, listening, requests,
                   extConfig, extJobs>>

\* the application messages a listener receives: <<id, type>> under the
\* transport's namespace
RequestMessages == {InMsg(TRUE, m[2], m[1], NoId, NoErr, "p1") : m \in Messages}

Ext_onMessage(type) ==
    /\ messageHandlers' = messageHandlers \cup {type}
    /\ inbound' = "none"
    /\ UNCHANGED <<responseHandlers, listening, requests>>
    /\ ServerStays

Ext_offMessage(type) ==
    /\ messageHandlers' = messageHandlers \ {type}
    /\ inbound' = "none"
    /\ UNCHANGED <<responseHandlers, listening, requests>>
    /\ ServerStays

\* close(): clearTimeout on every entry's timer, clear the table, remove the
\* chrome.runtime.onMessage listener (and no other listener)
Ext_close ==
    /\ requests' = [r \in DOMAIN requests |->
                      IF \E k \in DOMAIN responseHandlers : responseHandlers[k] = r
                      THEN ClearTimeout(requests[r]) ELSE requests[r]]
    /\ responseHandlers' = EmptyMap
    /\ listening' = FALSE
    /\ inbound' = "none"
    /\ UNCHANGED messageHandlers
    /\ ServerStays

ExtNext ==
    \/ \E m \in Messages, throws \in BOOLEAN : Ext_send(m[1], m[2], throws)
    \/ \E r \in DOMAIN requests : Ext_timeout(r)
    \/ \E r \in DOMAIN requests : Ext_callbackLastError(r)
    \/ \E r \in DOMAIN requests, response \in CallbackResponses :
            Ext_callbackResponse(r, response)
    \/ \E msg \in InMessages, sendResponse \in BOOLEAN :
            Ext_handleIncomingMessage(msg, sendResponse)
    \/ Ext_close

\* the inbound messages of the reserved type
InResponses == {msg \in InMessages : msg.ns /\ msg.type = ResponseType}

\* requests and the responses to them on a transport that has, at times, a
\* handler registered under the reserved type 'response': a response without
\* a correlationId starts it.  The messages come through the
\* chrome.runtime.onMessage listener, which is handed a sendResponse that
\* does not throw
ResponsesNext ==
    \/ \E m \in Messages, throws \in BOOLEAN : Ext_send(m[1], m[2], throws)
    \/ \E r \in DOMAIN requests : Ext_timeout(r)
    \/ \E msg \in InResponses : Ext_handleIncomingMessage(msg, TRUE)
    \/ \E j \in DOMAIN extJobs, outcome \in HandlerOutcomes :
            Ext_handlerSettles(j, outcome, FALSE)
    \/ \E type \in HandlerTypes : Ext_onMessage(type)
    \/ \E type \in HandlerTypes : Ext_offMessage(type)

(***************************************************************************)
(* ChromeTransport                                                         *)
(***************************************************************************)
RECURSIVE Pow(_, _)
\* Math.pow(b, e) for the integer arguments the model uses
Pow(b, e) == IF e = 0 THEN 1 ELSE b * Pow(b, e - 1)

\* configurations the transport is constructed with: reconnect on (the
\* default) or off, reconnectOptions {maxRetries: 3, backoffFactor: 2,
\* initialDelayMs: 100}
Configs ==
    {[reconnect |-> rc, maxRetries |-> 3, backoffFactor |-> 2, initialDelayMs |-> 100] :
        rc \in BOOLEAN}

NoOut == [op |-> "none", result |-> "none", connectCalled |-> FALSE,
          posted |-> FALSE, portDisconnected |-> FALSE]

Out(op, result, connectCalled, posted, portDisconnected) ==
    [op |-> op, result |-> result, connectCalled |-> connectCalled,
     posted |-> posted, portDisconnected |-> portDisconnected]

ChromeInit ==
    /\ config \in Configs
    /\ port = 0
    /\ isConnected = FALSE
    /\ reconnectAttempts = 0
    /\ connectPromise = "null"
    /\ reconnectTimers = <<>>
    /\ retriesMade = 0
    /\ ports = <<>>
    /\ chromeOut = NoOut

\* handleReconnect(): the retry count and the timers after it ran, given the
\* timers pending before
WouldSchedule == reconnectAttempts < config.maxRetries

HandleReconnectAttempts ==
    IF WouldSchedule THEN reconnectAttempts + 1 ELSE reconnectAttempts

HandleReconnectTimers(timers) ==
    IF WouldSchedule
    THEN Append(timers,
                config.initialDelayMs * Pow(config.backoffFactor, reconnectAttempts))
    ELSE timers

\* connect(): ok tells whether chrome.runtime.connect returns a port or
\* throws; timers are the reconnect timers pending when it is called. The
\* promise executor runs synchronously, so cleanupConnectionPromise() runs
\* before `this.connectPromise = new Promise(...)` stores the settled promise.
ConnectBody(op, ok, timers) ==
    IF isConnected /\ port # 0
    THEN /\ chromeOut' = Out(op, "resolved", FALSE, FALSE, FALSE)
         /\ reconnectTimers' = timers
         /\ UNCHANGED <<port, isConnected, reconnectAttempts, connectPromise,
                        retriesMade, ports>>
    ELSE IF connectPromise # "null"
    THEN /\ chromeOut' = Out(op, connectPromise, FALSE, FALSE, FALSE)
         /\ reconnectTimers' = timers
         /\ UNCHANGED <<port, isConnected, reconnectAttempts, connectPromise,
                        retriesMade, ports>>
    ELSE IF ok
    THEN /\ Len(ports) < MaxPorts
         /\ ports' = Append(ports, "open")
         /\ port' = Len(ports) + 1
         /\ isConnected' = TRUE
         /\ reconnectAttempts' = 0
         /\ connectPromise' = "resolved"
         /\ reconnectTimers' = timers
         /\ retriesMade' = 0
         /\ chromeOut' = Out(op, "resolved", TRUE, FALSE, FALSE)
    ELSE /\ connectPromise' = "rejected"
         /\ IF config.reconnect
            THEN /\ WouldSchedule => Len(timers) < MaxTimers
                 /\ reconnectAttempts' = HandleReconnectAttempts
                 /\ reconnectTimers' = HandleReconnectTimers(timers)
            ELSE /\ reconnectTimers' = timers
                 /\ UNCHANGED reconnectAttempts
         /\ retriesMade' = IF op = "retry" THEN retriesMade + 1 ELSE retriesMade
         /\ chromeOut' = Out(op, "rejected", TRUE, FALSE, FALSE)
         /\ UNCHANGED <<port, isConnected, ports>>

Chrome_connect(ok) ==
    /\ ConnectBody("connect", ok, reconnectTimers)
    /\ UNCHANGED config

\* the setTimeout callback of handleReconnect: this.connect().catch(...)
Chrome_reconnectTimer(i, ok) ==
    /\ ConnectBody("retry", ok, RemoveAt(reconnectTimers, i))
    /\ UNCHANGED config

\* handleDisconnection(): the fields after it ran
HandleDisconnection(op, result, posted) ==
    /\ isConnected' = FALSE
    /\ port' = 0
    /\ IF isConnected /\ config.reconnect
       THEN /\ WouldSchedule => Len(reconnectTimers) < MaxTimers
            /\ reconnectAttempts' = HandleReconnectAttempts
            /\ reconnectTimers' = HandleReconnectTimers(reconnectTimers)
       ELSE UNCHANGED <<reconnectAttempts, reconnectTimers>>
    /\ chromeOut' = Out(op, result, FALSE, posted, FALSE)
    /\ UNCHANGED <<connectPromise, config, retriesMade>>

\* disconnect(): eventSuppressed tells whether calling port.disconnect() on a
\* port whose other end is already gone still lets its onDisconnect event be
\* delivered (chrome does not say)
Chrome_disconnect(eventSuppressed) ==
    /\ IF port # 0
       THEN /\ ports' = [ports EXCEPT ![port] =
                            IF @ = "open" \/ (@ = "closing" /\ eventSuppressed)
                            THEN "closedLocal" ELSE @]
            /\ chromeOut' = Out("disconnect", "resolved", FALSE, FALSE, TRUE)
       ELSE /\ UNCHANGED ports
            /\ chromeOut' = Out("disconnect", "resolved", FALSE, FALSE, FALSE)
    /\ port' = 0
    /\ isConnected' = FALSE
    /\ connectPromise' = "null"
    /\ UNCHANGED <<config, reconnectAttempts, reconnectTimers, retriesMade>>

\* mutant: send() without the `!this.port || !this.isConnected` check: the
\* postMessage call on a null or dead port throws and is handled as a
\* disconnection
Chrome_send_NoCheck(kind) ==
    IF port # 0 /\ ports[port] = "open"
    THEN /\ chromeOut' = Out(kind, "sent", FALSE, TRUE, FALSE)
         /\ UNCHANGED <<config, port, isConnected, reconnectAttempts,
                        connectPromise, reconnectTimers, retriesMade, ports>>
    ELSE /\ HandleDisconnection(kind, "threw", TRUE)
         /\ UNCHANGED ports

\* send(message), reached from sendRequest(type, payload) and
\* publish(eventType, payload); port.postMessage throws on a port whose other
\* end is gone
Chrome_send(kind) ==
    IF port = 0 \/ ~isConnected
    THEN /\ chromeOut' = Out(kind, "NotConnected", FALSE, FALSE, FALSE)
         /\ UNCHANGED <<config, port, isConnected, reconnectAttempts,
                        connectPromise, reconnectTimers, retriesMade, ports>>
    ELSE IF ports[port] = "open"
    THEN /\ chromeOut' = Out(kind, "sent", FALSE, TRUE, FALSE)
         /\ UNCHANGED <<config, port, isConnected, reconnectAttempts,
                        connectPromise, reconnectTimers, retriesMade, ports>>
    ELSE /\ HandleDisconnection(kind, "threw", TRUE)
         /\ UNCHANGED ports

\* the other end of port p goes away
PortRemoteClose(p) ==
    /\ ports[p] = "open"
    /\ ports' = [ports EXCEPT ![p] = "closing"]
    /\ chromeOut' = NoOut
    /\ UNCHANGED <<config, port, isConnected, reconnectAttempts, connectPromise,
                   reconnectTimers, retriesMade>>

\* the onDisconnect listener setupConnectionHandlers() put on port p
Chrome_onDisconnect(p) ==
    /\ ports[p] = "closing"
    /\ ports' = [ports EXCEPT ![p] = "lost"]
    /\ HandleDisconnection("onDisconnect", "none", FALSE)

ChromeNext ==
    \/ \E ok \in BOOLEAN : Chrome_connect(ok)
    \/ \E i \in DOMAIN reconnectTimers, ok \in BOOLEAN : Chrome_reconnectTimer(i, ok)
    \/ \E eventSuppressed \in BOOLEAN : Chrome_disconnect(eventSuppressed)
    \/ \E kind \in {"sendRequest", "publish"} : Chrome_send(kind)
    \/ \E p \in DOMAIN ports : PortRemoteClose(p)
    \/ \E p \in DOMAIN ports : Chrome_onDisconnect(p)

(***************************************************************************)
(* NatsTransport                                                           *)
(***************************************************************************)
\* the nats.publish calls of a step: each [subject, reply, requestId], where
\* reply is NoReplyOption when the options carry no reply, and requestId is
\* the 'requestId' header, NoId in headers without one
NoReplyOption == "noreply"

\* message.replyTo, absent (undefined) or a subject
NoReplyTo == "undefined"

\* no message: the step was not a send() call
NoNatsMessage == [type |-> <<>>, requestId |-> NoId, replyTo |-> NoReplyTo]

NatsNoOut == [op |-> "none", result |-> "none", connectCalled |-> FALSE,
              published |-> "none", calls |-> <<>>, message |-> NoNatsMessage]

NatsOut(op, result, connectCalled, published) ==
    [op |-> op, result |-> result, connectCalled |-> connectCalled,
     published |-> published, calls |-> <<>>, message |-> NoNatsMessage]

\* the value of a 'requestId' header is the string of its characters, which
\* the response handler indexes; NoRequestId: the empty string headers.get
\* gives for a missing header, and the requestId of a callback message
\* that has none
NoRequestId == <<>>

\* no message is on its way to the subscriptions and none was handed to
\* them in the last step
NoNatsIn ==
    [op |-> "none",
     message |-> [kind |-> "none", subject |-> <<>>, requestId |-> NoRequestId],
     pending |-> {}, registered |-> FALSE, dropped |-> FALSE,
     callbacks |-> <<>>]

\* what a step that hands no message to a subscription leaves of natsIn:
\* the message still on its way to a subscription, if there is one
InFlight == IF natsIn.pending = {} THEN NoNatsIn ELSE natsIn

NatsInit ==
    /\ messageCallback = FALSE
    /\ natsIn = NoNatsIn
    /\ nats = 0
    /\ subscriptions = <<>>
    /\ connected = FALSE
    /\ connecting = FALSE
    /\ connectPc = "idle"
    /\ disconnects = EmptyBag
    /\ natsConns = <<>>
    /\ natsSubs = <<>>
    /\ statusLoops = {}
    /\ raced = FALSE
    /\ natsOut = NatsNoOut

\* mutant: connect() without the `if (this.connected) return`
Nats_connect_NoConnectedCheck ==
    /\ IF connecting
       THEN /\ natsOut' = NatsOut("connect", "InProgress", FALSE, "none")
            /\ UNCHANGED <<connecting, connectPc>>
       ELSE /\ Len(natsConns) < MaxConns
            /\ connecting' = TRUE
            /\ connectPc' = "connect"
            /\ natsOut' = NatsOut("connect", "pending", TRUE, "none")
    /\ raced' = (raced /\ ~natsOut'.connectCalled)
    /\ UNCHANGED <<nats, subscriptions, connected, disconnects,
                   natsConns, natsSubs, statusLoops>>

\* connect(): up to the first await
Nats_connect ==
    /\ IF connected
       THEN /\ natsOut' = NatsOut("connect", "resolved", FALSE, "none")
            /\ UNCHANGED <<connecting, connectPc>>
       ELSE IF connecting
       THEN /\ natsOut' = NatsOut("connect", "InProgress", FALSE, "none")
            /\ UNCHANGED <<connecting, connectPc>>
       ELSE /\ Len(natsConns) < MaxConns
            /\ connecting' = TRUE
            /\ connectPc' = "connect"
            /\ natsOut' = NatsOut("connect", "pending", TRUE, "none")
    /\ raced' = (raced /\ ~natsOut'.connectCalled)
    /\ UNCHANGED <<nats, subscriptions, connected, disconnects,
                   natsConns, natsSubs, statusLoops>>

\* `await connect(connectionOptions)` rejects: the catch block
Nats_connectFailed ==
    /\ UNCHANGED raced
    /\ connectPc = "connect"
    /\ connecting' = FALSE
    /\ connectPc' = "idle"
    /\ natsOut' = NatsOut("connect", "rejected", FALSE, "none")
    /\ UNCHANGED <<nats, subscriptions, connected, disconnects,
                   natsConns, natsSubs, statusLoops>>

\* `await connect(connectionOptions)` resolves: this.nats is set and
\* setupSubscriptions() subscribes to '>' and '<events>.*' on it
Nats_connectOpened ==
    /\ UNCHANGED raced
    /\ connectPc = "connect"
    /\ LET c == Len(natsConns) + 1
           n == Len(natsSubs) IN
       /\ natsConns' = Append(natsConns, "open")
       /\ nats' = c
       /\ natsSubs' = natsSubs \o
             << [conn |-> c, subject |-> "responses", active |-> TRUE],
                [conn |-> c, subject |-> "events", active |-> TRUE] >>
       /\ subscriptions' = subscriptions \o << n + 1, n + 2 >>
    /\ connectPc' = "setup"
    /\ natsOut' = NatsNoOut
    /\ UNCHANGED <<connected, connecting, disconnects, statusLoops>>

\* after `await this.setupSubscriptions()`: the flags are set and the status
\* loop starts on whatever this.nats is now
Nats_connectDone ==
    /\ UNCHANGED raced
    /\ connectPc = "setup"
    /\ connected' = TRUE
    /\ connecting' = FALSE
    /\ connectPc' = "idle"
    /\ statusLoops' = IF nats # 0 /\ natsConns[nats] = "open"
                      THEN statusLoops \cup {nats} ELSE statusLoops
    /\ natsOut' = NatsOut("connect", "resolved", FALSE, "none")
    /\ UNCHANGED <<nats, subscriptions, disconnects, natsConns,
                   natsSubs>>

\* the messageCallback invocation of the status loop
StatusCallbacks ==
    IF messageCallback
    THEN << [type |-> <<"system", ":", "disconnected">>,
             requestId |-> NoRequestId] >>
    ELSE <<>>

\* the status loop of connection c reads a 'disconnect' status: the library
\* lost the server (it keeps the connection object and reconnects on its
\* own); the callback is handed {type: 'system:disconnected'} when one is
\* registered (natsOut tells so; natsIn too, unless it holds a message on
\* its way to a subscription)
Nats_statusDisconnect(c) ==
    /\ UNCHANGED raced
    /\ c \in statusLoops
    /\ natsConns[c] = "open"
    /\ connected' = FALSE
    /\ natsOut' = NatsOut("status",
                          IF messageCallback THEN "system:disconnected" ELSE "none",
                          FALSE, "none")
    /\ natsIn' = IF natsIn.pending # {} THEN natsIn
                 ELSE IF messageCallback
                 THEN [NoNatsIn EXCEPT !.op = "status",
                                       !.callbacks = StatusCallbacks]
                 ELSE NoNatsIn
    /\ UNCHANGED <<nats, subscriptions, connecting, connectPc, disconnects,
                   natsConns, natsSubs, statusLoops>>

\* a disconnect() call in flight
DisconnectCall(pc, at, array, live) ==
    [pc |-> pc, at |-> at, array |-> array, live |-> live]

\* the array the loop of call d iterates, as it is now: elements pushed on
\* this.subscriptions while the loop is suspended are visited too
ArrayOf(d) == IF d.live THEN subscriptions ELSE d.array

\* `this.subscriptions = []`: a loop still iterating the replaced array goes
\* on over what it holds
Detach(d) ==
    IF d.live THEN [d EXCEPT !.array = subscriptions, !.live = FALSE] ELSE d

\* the calls in flight after `this.subscriptions = []`
Detached(calls) ==
    LET copies == UNION {{d} \X (1..CopiesIn(d, calls)) : d \in BagToSet(calls)} IN
    [e \in {Detach(d) : d \in BagToSet(calls)} |->
        Cardinality({c \in copies : Detach(c[1]) = e})]

\* disconnect(): the steps of call d from position i of its array on, up to
\* the next await; others: the other calls in flight
DisconnectFrom(d, i, others) ==
    IF i <= Len(ArrayOf(d))
    THEN \* sub.unsubscribe(), then await
         /\ natsSubs' = [natsSubs EXCEPT ![ArrayOf(d)[i]].active = FALSE]
         /\ disconnects' = others (+) SetToBag({[d EXCEPT !.pc = "unsub", !.at = i]})
         /\ natsOut' = NatsNoOut
         /\ UNCHANGED <<nats, subscriptions, connected, natsConns, statusLoops>>
    ELSE \* this.subscriptions = []; if (this.nats) await this.nats.close()
         /\ subscriptions' = <<>>
         /\ IF nats # 0
            THEN /\ natsConns' = [natsConns EXCEPT ![nats] = "closed"]
                 /\ statusLoops' = statusLoops \ {nats}
                 /\ disconnects' =
                       Detached(others)
                       (+) SetToBag({DisconnectCall("close", 0, <<>>, FALSE)})
                 /\ natsOut' = NatsNoOut
            ELSE /\ disconnects' = Detached(others)
                 /\ natsOut' = NatsOut("disconnect", "resolved", FALSE, "none")
                 /\ UNCHANGED <<natsConns, statusLoops>>
         /\ UNCHANGED <<nats, connected, natsSubs>>

\* disconnect(), whatever other calls are in flight: up to its first await
Nats_disconnect ==
    /\ BagCardinality(disconnects) < MaxDisconnects
    /\ raced' = connecting
    /\ DisconnectFrom(DisconnectCall("unsub", 0, <<>>, TRUE), 1, disconnects)
    /\ UNCHANGED <<connecting, connectPc>>

\* a call d in flight after `await sub.unsubscribe()`
Nats_disconnectNext(d) ==
    /\ UNCHANGED raced
    /\ d.pc = "unsub"
    /\ DisconnectFrom(d, d.at + 1, disconnects (-) SetToBag({d}))
    /\ UNCHANGED <<connecting, connectPc>>

\* a call d in flight after `await this.nats.close()`
Nats_disconnectDone(d) ==
    /\ UNCHANGED raced
    /\ d.pc = "close"
    /\ nats' = 0
    /\ connected' = FALSE
    /\ disconnects' = disconnects (-) SetToBag({d})
    /\ natsOut' = NatsOut("disconnect", "resolved", FALSE, "none")
    /\ UNCHANGED <<subscriptions, connecting, connectPc, natsConns,
                   natsSubs, statusLoops>>

\* this.config.subjects after the constructor, no subjects configured
NatsSubjects ==
    [requests |-> <<"messaging.requests">>, events |-> <<"messaging.events">>]

\* message types, as the sequences of their tokens: events, and types that do
\* not begin with 'event:'
NatsTypes ==
    {<<"event", ":", "saved">>, <<"event", ":", "user", ".", "saved">>,
     <<"getUser">>, <<"request", ":", "event", ":", "saved">>}

\* messages handed to send(): with neither a requestId nor a replyTo, with a
\* requestId only, and with both (NoId, NoReplyTo: the field is absent)
NatsMessages ==
    {[type |-> t, requestId |-> r[1], replyTo |-> r[2]] :
        t \in NatsTypes,
        r \in {<<NoId, NoReplyTo>>, <<"r1", NoReplyTo>>, <<"r1", "inbox.1">>}}

NatsIsEvent(message) ==
    /\ Len(message.type) >= 2
    /\ SubSeq(message.type, 1, 2) = <<"event", ":">>

\* mutant: the event subject keeps the whole message type
NatsPublishCall_KeepsPrefix(message) ==
    IF NatsIsEvent(message)
    THEN [subject |-> NatsSubjects.events \o <<".">> \o message.type,
          reply |-> NoReplyOption,
          requestId |-> message.requestId]
    ELSE [subject |-> NatsSubjects.requests \o <<".">> \o message.type,
          reply |-> IF message.replyTo = NoReplyTo THEN "" ELSE message.replyTo,
          requestId |-> message.requestId]

\* the arguments of the nats.publish call send() makes: message.type
\* .substring(6) drops the six characters of 'event:'; replyTo || ''
NatsPublishCall(message) ==
    IF NatsIsEvent(message)
    THEN [subject |-> NatsSubjects.events \o <<".">>
                         \o SubSeq(message.type, 3, Len(message.type)),
          reply |-> NoReplyOption,
          requestId |-> message.requestId]
    ELSE [subject |-> NatsSubjects.requests \o <<".">> \o message.type,
          reply |-> IF message.replyTo = NoReplyTo THEN "" ELSE message.replyTo,
          requestId |-> message.requestId]

\* send(message); nats.publish throws on a closed connection
Nats_send(message) ==
    /\ UNCHANGED raced
    /\ IF nats = 0 \/ ~connected
       THEN natsOut' = [NatsOut("send", "NotConnected", FALSE, "none")
                           EXCEPT !.message = message]
       ELSE IF natsConns[nats] = "open"
       THEN natsOut' = [NatsOut("send", "sent", FALSE,
                                IF NatsIsEvent(message)
                                THEN "events" ELSE "requests")
                           EXCEPT !.calls = <<NatsPublishCall(message)>>,
                                  !.message = message]
       ELSE natsOut' = [NatsOut("send", "threw", FALSE, "closed")
                           EXCEPT !.message = message]
    /\ UNCHANGED <<nats, subscriptions, connected, connecting, connectPc,
                   disconnects, natsConns, natsSubs, statusLoops>>

\* receive(callback)
Nats_receive ==
    /\ messageCallback' = TRUE
    /\ natsIn' = InFlight
    /\ UNCHANGED natsVars

\* messages the server hands to subscriptions: requests, events and replies
\* published by this transport or by a peer.  A message is what its
\* publisher meant it to be (kind), its subject and its 'requestId' header
\* (NoRequestId: none)
NatsInbound ==
    {[kind |-> "request", subject |-> <<"messaging.requests", ".", "getUser">>,
      requestId |-> r] : r \in {NoRequestId, <<"r", "1">>}}
    \cup {[kind |-> "event", subject |-> <<"messaging.events", ".", "saved">>,
           requestId |-> r] : r \in {NoRequestId, <<"r", "1">>}}
    \cup {[kind |-> "reply", subject |-> <<"inbox", ".", "1">>,
           requestId |-> <<"r", "1">>]}

\* the subject filter of a subscription: '>' takes every subject,
\* '<events>.*' the subjects with one token after the events base
SubjectMatches(filter, subject) ==
    IF filter = "responses" THEN subject # <<>>
    ELSE /\ Len(subject) = 3
         /\ SubSeq(subject, 1, 2) = NatsSubjects.events \o <<".">>

\* headers?.get('requestId')?.[0]: the first character of the header value,
\* undefined when there is none
FirstOf(header) == IF header = <<>> THEN NoRequestId ELSE <<header[1]>>

\* the handler processSubscription() runs for a message of a subscription:
\* the messageCallback invocations it makes
SubscriptionCallbacks(filter, message) ==
    IF ~messageCallback THEN <<>>
    ELSE IF filter = "responses"
    THEN IF FirstOf(message.requestId) # NoRequestId
         THEN << [type |-> <<"response">>,
                  requestId |-> FirstOf(message.requestId)] >>
         ELSE <<>>
    ELSE << [type |-> <<"event", ":">>
                       \o <<message.subject[Len(message.subject)]>>,
             requestId |-> NoRequestId] >>

\* the subscriptions the server has a message for: those active on an open
\* connection whose filter takes the subject
Takers(message) ==
    {k \in DOMAIN natsSubs :
        /\ natsSubs[k].active
        /\ natsConns[natsSubs[k].conn] = "open"
        /\ SubjectMatches(natsSubs[k].subject, message.subject)}

\* the server routes one message: it goes to every subscription that takes
\* it, each of which is read by a `for await` loop of its own.  The next
\* message is routed when this one has been read
Nats_route(message) ==
    /\ natsIn.pending = {}
    /\ Takers(message) # {}
    /\ natsIn' = [op |-> "route", message |-> message,
                  pending |-> Takers(message),
                  registered |-> messageCallback, dropped |-> FALSE,
                  callbacks |-> <<>>]
    /\ UNCHANGED <<natsVars, messageCallback>>

\* the `for await` loop of subscription k reads the message and runs the
\* handler of the subscription.
\* yielded: the iterator of a subscription that was unsubscribed, or whose
\* connection was closed, after the message was routed still yields it, or
\* ends without it (the library decides)
Nats_deliver(k, yielded) ==
    /\ k \in natsIn.pending
    /\ (natsSubs[k].active /\ natsConns[natsSubs[k].conn] = "open") => yielded
    /\ natsIn' = [natsIn EXCEPT
          !.op = "deliver",
          !.pending = @ \ {k},
          !.dropped = @ \/ ~yielded,
          !.callbacks = IF yielded
                        THEN @ \o SubscriptionCallbacks(natsSubs[k].subject,
                                                        natsIn.message)
                        ELSE @]
    /\ UNCHANGED <<natsVars, messageCallback>>

\* connect() and disconnect() called on the transport, and their
\* continuations
NatsConnectionCalls ==
    \/ Nats_connect
    \/ Nats_connectFailed
    \/ Nats_connectOpened
    \/ Nats_connectDone
    \/ Nats_disconnect
    \/ \E d \in BagToSet(disconnects) : Nats_disconnectNext(d)
    \/ \E d \in BagToSet(disconnects) : Nats_disconnectDone(d)

\* the calls made on the transport and their continuations, send() being
\* called with the messages of the set messages
NatsCallsWith(messages) ==
    \/ NatsConnectionCalls
    \/ \E message \in messages : Nats_send(message)

NatsCalls == NatsCallsWith(NatsMessages)

NatsNext ==
    \/ NatsCalls
    \/ \E c \in DOMAIN natsConns : Nats_statusDisconnect(c)

(***************************************************************************)
(* ChromeTransport: event subscriptions and request handlers               *)
(***************************************************************************)
\* the wrapper subscribe() builds around the caller's handler is a new
\* function object on every call, whatever the handler: subscription i is
\* the i-th subscribe() call, and calling its wrapper calls its handler
Subscription(eventType) == [type |-> eventType]

RouterNoOut == [op |-> "none", type |-> "none", payload |-> "none",
                invoked |-> <<>>, threw |-> {}, escaped |-> FALSE,
                requestId |-> "none", settled |-> "none", posted |-> <<>>]

\* no event is being dispatched
DispatchIdle ==
    [active |-> FALSE, done |-> FALSE, type |-> "none", set |-> <<>>,
     linked |-> FALSE, visited |-> {}, arrived |-> <<>>, invoked |-> <<>>]

RouterInit ==
    /\ eventHandlers = EmptyMap
    /\ subs = <<>>
    /\ unsubscribed = {}
    /\ requestHandlers = {}
    /\ jobs = <<>>
    /\ routerOut = RouterNoOut
    /\ dispatch = DispatchIdle

\* Set.prototype.delete on a Set kept in insertion order
SetDelete(seq, x) == SelectSeq(seq, LAMBDA y : y # x)

\* the elements of a sequence
Range(seq) == {seq[i] : i \in DOMAIN seq}

\* subscribe(eventType, handler)
Chrome_subscribe(eventType) ==
    /\ Len(subs) < MaxSubs
    /\ subs' = Append(subs, Subscription(eventType))
    /\ eventHandlers' =
          IF eventType \in DOMAIN eventHandlers
          THEN [eventHandlers EXCEPT ![eventType] = Append(@, Len(subs) + 1)]
          ELSE MapSet(eventHandlers, eventType, <<Len(subs) + 1>>)
    /\ routerOut' = RouterNoOut
    /\ UNCHANGED <<unsubscribed, requestHandlers, jobs>>

\* mutant: the unsubscribe function drops the whole entry of its event type
Chrome_unsubscribe_DropsType(i) ==
    /\ eventHandlers' = MapDelete(eventHandlers, subs[i].type)
    /\ unsubscribed' = unsubscribed \cup {i}
    /\ routerOut' = [RouterNoOut EXCEPT !.op = "unsubscribe", !.invoked = <<i>>]
    /\ UNCHANGED <<subs, requestHandlers, jobs>>

\* the function subscribe() call i returned
Chrome_unsubscribe(i) ==
    /\ LET t == subs[i].type IN
       eventHandlers' =
          IF t \in DOMAIN eventHandlers
          THEN IF SetDelete(eventHandlers[t], i) = <<>>
               THEN MapDelete(eventHandlers, t)
               ELSE [eventHandlers EXCEPT ![t] = SetDelete(@, i)]
          ELSE eventHandlers
    /\ unsubscribed' = unsubscribed \cup {i}
    /\ routerOut' = [RouterNoOut EXCEPT !.op = "unsubscribe", !.invoked = <<i>>]
    /\ UNCHANGED <<subs, requestHandlers, jobs>>

\* a port of the transport can deliver a message to its onMessage listener
PortListening == \E p \in DOMAIN ports : ports[p] = "open"

\* mutant: the handlers of every event type, not of eventType alone
HandlersFor_AnyType(eventType) ==
    SelectSeq([i \in DOMAIN subs |-> i],
              LAMBDA i : \E t \in DOMAIN eventHandlers :
                            \E k \in DOMAIN eventHandlers[t] : eventHandlers[t][k] = i)

\* the handlers handleMessage() iterates over for an event of type eventType
HandlersFor(eventType) ==
    IF eventType \in DOMAIN eventHandlers THEN eventHandlers[eventType] ELSE <<>>

\* mutant: the handler loop without the try/catch around each call: the
\* first handler that throws ends the loop
Chrome_handleEvent_NoCatch(eventType, payload, throwing) ==
    /\ PortListening
    /\ throwing \subseteq Range(HandlersFor(eventType))
    /\ LET hs == HandlersFor(eventType)
           stop == IF throwing = {} THEN Len(hs)
                   ELSE CHOOSE k \in DOMAIN hs :
                          /\ hs[k] \in throwing
                          /\ \A j \in 1..(k - 1) : hs[j] \notin throwing IN
       routerOut' = [RouterNoOut EXCEPT
                        !.op = "event", !.type = eventType, !.payload = payload,
                        !.invoked = SubSeq(hs, 1, stop),
                        !.threw = throwing \cap Range(SubSeq(hs, 1, stop)),
                        !.escaped = throwing # {}]
    /\ UNCHANGED <<eventHandlers, subs, unsubscribed, requestHandlers, jobs>>

\* the port's onMessage listener -> handleMessage({type: 'event:<eventType>',
\* payload}); throwing are the subscriptions whose handler throws on this
\* call.  messageCallback is null: receive() is private and never called.
Chrome_handleEvent(eventType, payload, throwing) ==
    /\ PortListening
    /\ throwing \subseteq Range(HandlersFor(eventType))
    /\ routerOut' = [RouterNoOut EXCEPT
                        !.op = "event", !.type = eventType, !.payload = payload,
                        !.invoked = HandlersFor(eventType),
                        !.threw = throwing]
    /\ UNCHANGED <<eventHandlers, subs, unsubscribed, requestHandlers, jobs>>

\* `for (const handler of handlers)`: the iterator of a Set visits the
\* elements in insertion order, those added while it runs included, and skips
\* those deleted before it reached them; 0 when it is done
NextHandler(d) ==
    LET rest == SelectSeq(d.set, LAMBDA h : h \notin d.visited) IN
    IF rest = <<>> THEN 0 ELSE rest[1]

\* the port's onMessage listener -> handleMessage({type: 'event:<eventType>'})
\* up to the first handler call: the Set of the event type is looked up once
Dispatch_begin(eventType) ==
    /\ PortListening
    /\ ~dispatch.active
    /\ dispatch' = [active |-> TRUE, done |-> FALSE, type |-> eventType,
                    set |-> HandlersFor(eventType),
                    linked |-> eventType \in DOMAIN eventHandlers,
                    visited |-> {},
                    arrived |-> HandlersFor(eventType),
                    invoked |-> <<>>]
    /\ routerOut' = RouterNoOut
    /\ UNCHANGED <<eventHandlers, subs, unsubscribed, requestHandlers, jobs>>

\* the loop calls the next wrapper of the Set, whose handler makes one call:
\* subscribe() adds to the Set in eventHandlers, which is the iterated one
\* unless the key was deleted since; an unsubscribe function deletes from it
\* and deletes the key of a Set it emptied
Dispatch_invoke(call) ==
    /\ dispatch.active
    /\ NextHandler(dispatch) # 0
    /\ LET h == NextHandler(dispatch)
           d == [dispatch EXCEPT !.visited = @ \cup {h},
                                 !.invoked = Append(@, h)] IN
       IF call.op = "subscribe"
       THEN /\ Chrome_subscribe(call.type)
            /\ dispatch' =
                  IF call.type = d.type /\ d.linked
                  THEN [d EXCEPT !.set = Append(@, Len(subs) + 1)]
                  ELSE d
       ELSE IF call.op = "unsubscribe"
       THEN /\ call.sub \in DOMAIN subs
            /\ Chrome_unsubscribe(call.sub)
            /\ dispatch' =
                  IF subs[call.sub].type = d.type /\ d.linked
                  THEN [d EXCEPT !.set = SetDelete(@, call.sub),
                                 !.linked = SetDelete(d.set, call.sub) # <<>>]
                  ELSE d
       ELSE /\ dispatch' = d
            /\ routerOut' = RouterNoOut
            /\ UNCHANGED <<eventHandlers, subs, unsubscribed, requestHandlers,
                           jobs>>

\* the iterator is done: handleMessage() returns
Dispatch_end ==
    /\ dispatch.active
    /\ NextHandler(dispatch) = 0
    /\ dispatch' = [dispatch EXCEPT !.active = FALSE, !.done = TRUE]
    /\ routerOut' = [RouterNoOut EXCEPT
                        !.op = "event", !.type = dispatch.type,
                        !.invoked = dispatch.invoked]
    /\ UNCHANGED <<eventHandlers, subs, unsubscribed, requestHandlers, jobs>>

\* what send(message) does in the current connection state
SendOutcome ==
    IF port = 0 \/ ~isConnected THEN "NotConnected"
    ELSE IF ports[port] = "open" THEN "sent" ELSE "threw"

\* the message publish() builds: `event:${eventType}`, the payload, and no
\* requestId
PublishMessage(eventType, payload) ==
    [type |-> <<"event:", eventType>>, payload |-> payload, requestId |-> NoId]

\* publish(eventType, payload): send(message)
Chrome_publish(eventType, payload) ==
    /\ routerOut' = [RouterNoOut EXCEPT
                        !.op = "publish", !.type = eventType, !.payload = payload,
                        !.posted = IF SendOutcome = "sent"
                                   THEN <<PublishMessage(eventType, payload)>>
                                   ELSE <<>>,
                        !.escaped = SendOutcome # "sent"]
    /\ Chrome_send("publish")
    /\ UNCHANGED <<eventHandlers, subs, unsubscribed, requestHandlers, jobs>>

\* request types handlers are registered for, and the requestId of inbound
\* messages (NoId: the message has none)
ReqTypes == {"r1"}

RequestIds == {"q1", "q2"}

\* `${message.type}_response`
ResponseTypeOf(type) == <<type, "_response">>

\* registerRequestHandler(type, handler): Map.set replaces an earlier handler
Chrome_registerRequestHandler(type) ==
    /\ requestHandlers' = requestHandlers \cup {type}
    /\ routerOut' = RouterNoOut
    /\ UNCHANGED <<eventHandlers, subs, unsubscribed, jobs>>

\* the function registerRequestHandler(type, ...) returned
Chrome_unregisterRequestHandler(type) ==
    /\ type \in requestHandlers
    /\ requestHandlers' = requestHandlers \ {type}
    /\ routerOut' = RouterNoOut
    /\ UNCHANGED <<eventHandlers, subs, unsubscribed, jobs>>

\* the request an inbound message starts: the handler is running and
\* handleMessage() is suspended at `await handler(message.payload, context)`
\* (at: "handler"); after a send() of the result that failed it is suspended
\* at the rejected `await this.send(...)`, its catch block still to run
\* (at: "catch")
NewJob(type, requestId) ==
    [type |-> type, requestId |-> requestId, at |-> "handler"]

\* the port's onMessage listener -> handleMessage({type, requestId, payload})
\* for a type that is neither 'event:...' nor '..._response'
Chrome_handleRequest(type, requestId) ==
    /\ PortListening
    /\ IF requestId # NoId /\ type \in requestHandlers
       THEN /\ Len(jobs) < MaxJobs
            /\ jobs' = Append(jobs, NewJob(type, requestId))
            /\ routerOut' = [RouterNoOut EXCEPT !.op = "request", !.type = type,
                                                !.requestId = requestId,
                                                !.invoked = <<Len(jobs) + 1>>]
       ELSE /\ UNCHANGED jobs
            /\ routerOut' = [RouterNoOut EXCEPT !.op = "request", !.type = type,
                                                !.requestId = requestId]
    /\ UNCHANGED <<eventHandlers, subs, unsubscribed, requestHandlers>>

\* the response message handleMessage() builds for a request: the payload is
\* the handler's result, or the error the handler threw
ResponseMessage(job, kind) ==
    [type |-> ResponseTypeOf(job.type), requestId |-> job.requestId, kind |-> kind]

\* the handler of job j settles and handleMessage() resumes after
\* `await handler(...)`.
\* resolves: send(<result response>); when that fails (the transport is not
\* connected, or postMessage throws and send() runs handleDisconnection)
\* handleMessage() is suspended once more, at the rejected await.
\* rejects: the catch block runs at once: send(<error response>), and a
\* failure of that send leaves handleMessage() for the listener's catch.
\* rejectsNullish: the catch block throws a TypeError at
\* `(error as Error).message`, before it calls send(): nothing reaches the
\* port, as in a send() that found the transport disconnected
Chrome_handlerSettles(j, outcome) ==
    /\ jobs[j].at = "handler"
    /\ LET job == jobs[j]
           ok == outcome = "resolves"
           kind == IF ok THEN "result" ELSE "error"
           settle == [RouterNoOut EXCEPT !.op = "settle", !.type = job.type,
                                         !.requestId = job.requestId,
                                         !.settled = IF ok THEN "resolved" ELSE "rejected"] IN
       IF outcome = "rejectsNullish"
       THEN /\ routerOut' = [settle EXCEPT !.escaped = TRUE]
            /\ chromeOut' = Out("respond", "NotConnected", FALSE, FALSE, FALSE)
            /\ UNCHANGED <<config, port, isConnected, reconnectAttempts,
                           connectPromise, reconnectTimers, retriesMade, ports>>
            /\ jobs' = RemoveAt(jobs, j)
       ELSE IF SendOutcome = "sent"
       THEN /\ routerOut' = [settle EXCEPT !.posted = <<ResponseMessage(job, kind)>>]
            /\ Chrome_send("respond")
            /\ jobs' = RemoveAt(jobs, j)
       ELSE IF ok
       THEN /\ routerOut' = settle
            /\ Chrome_send("respond")
            /\ jobs' = [jobs EXCEPT ![j].at = "catch"]
       ELSE /\ routerOut' = [settle EXCEPT !.escaped = TRUE]
            /\ Chrome_send("respond")
            /\ jobs' = RemoveAt(jobs, j)
    /\ UNCHANGED <<eventHandlers, subs, unsubscribed, requestHandlers>>

\* the catch block of job j, run for the error of the send() that failed
\* after its handler resolved: send(<error response>) on the transport as it
\* is now; a failure of this send leaves handleMessage() for the listener's
\* catch
Chrome_catchBlock(j) ==
    /\ jobs[j].at = "catch"
    /\ LET job == jobs[j]
           settle == [RouterNoOut EXCEPT !.op = "settle", !.type = job.type,
                                         !.requestId = job.requestId,
                                         !.settled = "resolved"] IN
       routerOut' = IF SendOutcome = "sent"
                    THEN [settle EXCEPT !.posted = <<ResponseMessage(job, "error")>>]
                    ELSE [settle EXCEPT !.escaped = TRUE]
    /\ Chrome_send("respond")
    /\ jobs' = RemoveAt(jobs, j)
    /\ UNCHANGED <<eventHandlers, subs, unsubscribed, requestHandlers>>

(***************************************************************************)
(* ExtensionAuthorizationProvider.  A string is the sequence of its        *)
(* tokens; no token is the beginning or the end of another one, so that    *)
(* startsWith, endsWith and slice on token sequences are those of the      *)
(* strings they spell.                                                     *)
(***************************************************************************)
\* tokens of one message type or pattern
MaxTokens == 3
\* patterns in one allowedPatterns array
MaxPatterns == 2
\* keys of one contentScriptOriginPermissions object
MaxOrigins == 2

\* String.prototype.startsWith
StartsWith(s, prefix) ==
    /\ Len(prefix) <= Len(s)
    /\ SubSeq(s, 1, Len(prefix)) = prefix

\* String.prototype.endsWith
EndsWith(s, suffix) ==
    /\ Len(suffix) <= Len(s)
    /\ SubSeq(s, Len(s) - Len(suffix) + 1, Len(s)) = suffix

\* pattern.slice(0, -1) for a pattern whose last token is the one character '*'
SliceLast(s) == SubSeq(s, 1, Len(s) - 1)

Star == <<"*">>

\* mutant: every pattern that ends with '*' is a prefix wildcard
isMessageAllowed_AnyStar(messageType, allowedPatterns) ==
    \/ Star \in allowedPatterns
    \/ messageType \in allowedPatterns
    \/ \E pattern \in allowedPatterns :
          /\ EndsWith(pattern, <<"*">>)
          /\ StartsWith(messageType, SliceLast(pattern))

\* isMessageAllowed(messageType, allowedPatterns); the array is modelled by
\* the set of its elements: includes() and some() depend on nothing else
isMessageAllowed(messageType, allowedPatterns) ==
    \/ Star \in allowedPatterns
    \/ messageType \in allowedPatterns
    \/ \E pattern \in allowedPatterns :
          /\ EndsWith(pattern, <<":", "*">>)
          /\ StartsWith(messageType, SliceLast(pattern))

PermissionSet(canHandle, canSend, canBroadcast) ==
    [canHandle |-> canHandle, canSend |-> canSend, canBroadcast |-> canBroadcast]

\* defaultPermissions
DefaultPermissions ==
    [background |-> PermissionSet({Star}, {Star}, TRUE),
     content |-> PermissionSet(
        {<<"dom", ":", "*">>, <<"page", ":", "*">>, <<"content", ":", "*">>},
        {<<"page", ":", "*">>, <<"dom", ":", "*">>, <<"settings", ":", "get">>},
        FALSE),
     popup |-> PermissionSet(
        {<<"ui", ":", "*">>},
        {<<"settings", ":", "*">>, <<"ui", ":", "*">>}, FALSE),
     sidepanel |-> PermissionSet(
        {<<"ui", ":", "*">>, <<"panel", ":", "*">>},
        {<<"settings", ":", "*">>, <<"panel", ":", "*">>, <<"ui", ":", "*">>},
        FALSE),
     options |-> PermissionSet(
        {<<"settings", ":", "*">>, <<"options", ":", "*">>},
        {<<"settings", ":", "*">>, <<"options", ":", "*">>}, FALSE)]

\* a property the context does not have
Absent == "absent"

\* mergedPermissions: the defaults, with each component type of
\* config.permissions replaced by {...default of the type, ...its permissions}
\* (a ComponentPermission has canHandle, canSend and canBroadcast)
MergedPermissions(cfg) ==
    IF cfg.hasPermissions
    THEN [ct \in DOMAIN DefaultPermissions \cup DOMAIN cfg.permissions |->
             IF ct \in DOMAIN cfg.permissions THEN cfg.permissions[ct]
             ELSE DefaultPermissions[ct]]
    ELSE DefaultPermissions

\* the constructor: mergedPermissions is the defaults overlaid with
\* config.permissions, and this.config = {permissions: mergedPermissions,
\* allowUndefinedMessages: false, enforceContentScriptOrigins: true,
\* contentScriptOriginPermissions: {}, ...config}.  The spread comes last: a
\* config that has permissions replaces mergedPermissions by them.
\* contentScriptOriginPermissions is the sequence of its <<key, PermissionSet>>
\* entries in the order of Object.keys
AuthConstructor(cfg) ==
    [permissions |-> IF cfg.hasPermissions THEN cfg.permissions
                     ELSE MergedPermissions(cfg),
     allowUndefinedMessages |-> cfg.allowUndefinedMessages,
     enforceContentScriptOrigins |-> cfg.enforceContentScriptOrigins,
     contentScriptOriginPermissions |-> cfg.contentScriptOriginPermissions]

\* property names every object literal inherits from Object.prototype: the
\* methods, the accessor __proto__ (Object.prototype itself) and the legacy
\* accessor helpers, each a truthy value
ObjectPrototypeNames ==
    {"constructor", "toString", "toLocaleString", "valueOf", "hasOwnProperty",
     "isPrototypeOf", "propertyIsEnumerable", "__proto__",
     "__defineGetter__", "__defineSetter__", "__lookupGetter__",
     "__lookupSetter__"}

\* this.config.permissions[componentType]: a PermissionSet of the object
\* ("own"), what Object.prototype holds under an inherited name
\* ("inherited": a function or Object.prototype, truthy, without canHandle,
\* canSend or canBroadcast), or undefined
PermissionsKind(cfg, componentType) ==
    IF componentType \in DOMAIN cfg.permissions THEN "own"
    ELSE IF componentType \in ObjectPrototypeNames THEN "inherited"
    ELSE "undefined"

\* context.meta?.componentType || (roles.length ? roles[0] : 'unknown')
ComponentTypeOf(context) ==
    IF context.componentType # Absent THEN context.componentType
    ELSE IF context.roles # <<>> THEN context.roles[1]
    ELSE "unknown"

\* An origin key and a source are the sequences of their characters.  The
\* keys are the empty string and strings written with letters, '.' and '*';
\* of the characters RegExp source gives a meaning, the other ones
\* (+ ? ( ) [ ] { } | \ ^ $) are in no key.
\* The characters '.' in RegExp source does not match: \n, \r, U+2028, U+2029
LineTerminators == {"\n", "\r", "U+2028", "U+2029"}

\* new RegExp(`^${origin.replace(/\*/g, '.*')}$`).test(source): a '*' of the
\* key has become '.*', any number of characters that are no line
\* terminators; a '.' of the key is RegExp source as it stands, one
\* character that is no line terminator; a letter matches itself.  Without
\* the m flag '$' is the end of the source
RECURSIVE WildcardTest(_, _)
WildcardTest(pattern, source) ==
    IF pattern = <<>> THEN source = <<>>
    ELSE IF Head(pattern) = "*"
    THEN \E n \in 0..Len(source) :
            /\ \A i \in 1..n : source[i] \notin LineTerminators
            /\ WildcardTest(Tail(pattern), SubSeq(source, n + 1, Len(source)))
    ELSE /\ source # <<>>
         /\ IF Head(pattern) = "."
            THEN Head(source) \notin LineTerminators
            ELSE Head(source) = Head(pattern)
         /\ WildcardTest(Tail(pattern), Tail(source))

\* the callback of Object.keys(...).find
OriginMatches(origin, source) ==
    IF \E k \in DOMAIN origin : origin[k] = "*"
    THEN WildcardTest(origin, source)
    ELSE StartsWith(source, origin)

\* the index of matchingOrigin among the keys, 0 for undefined: the first
\* key the callback of find accepts.  The key '' has no '*' and every source
\* starts with it
MatchingOrigin(cfg, source) ==
    LET keys == cfg.contentScriptOriginPermissions IN
    IF \E k \in DOMAIN keys : OriginMatches(keys[k][1], source)
    THEN CHOOSE k \in DOMAIN keys :
            /\ OriginMatches(keys[k][1], source)
            /\ \A l \in 1..(k - 1) : ~OriginMatches(keys[l][1], source)
    ELSE 0

\* mutant: the origin branch is entered for every component type
OriginBranch_AnyRole(cfg, context) ==
    /\ cfg.enforceContentScriptOrigins
    /\ context.source # <<>>
    /\ cfg.contentScriptOriginPermissions # <<>>

\* the origin branch is entered: enforcement is on, the component type is
\* 'content', context.source is truthy and the object has a key
OriginBranch(cfg, context) ==
    /\ cfg.enforceContentScriptOrigins
    /\ ComponentTypeOf(context) = "content"
    /\ context.source # <<>>
    /\ cfg.contentScriptOriginPermissions # <<>>

RequestPrefix == <<"request", ":">>

AuthResult(isAuthorized, threw, by) ==
    [isAuthorized |-> isAuthorized, threw |-> threw, by |-> by]

\* isBroadcast && !permissions.canBroadcast
BroadcastDenied(isBroadcast, permissions) ==
    isBroadcast /\ ~permissions.canBroadcast

\* mutant: the role-based list is canHandle for every message type
RoleRelevantPermissions_CanHandle(messageType, permissions) ==
    permissions.canHandle

\* relevantPermissions of the role-based path:
\* messageType.startsWith('request:') ? permissions.canHandle : permissions.canSend
RoleRelevantPermissions(messageType, permissions) ==
    IF StartsWith(messageType, RequestPrefix)
    THEN permissions.canHandle ELSE permissions.canSend

\* checkPermission(messageType, context, isBroadcast): the PermissionCheckResult
\* the promise fulfils with, or threw when it rejects; by: the return
\* statement reached.
\* `if (matchingOrigin)` tests the key find returned for truthiness: it
\* fails when no key matched (undefined) and when the key is ''
checkPermission(cfg, messageType, context, isBroadcast) ==
    LET componentType == ComponentTypeOf(context)
        kind == PermissionsKind(cfg, componentType)
        m == IF OriginBranch(cfg, context)
             THEN MatchingOrigin(cfg, context.source) ELSE 0 IN
    IF kind = "undefined"
    THEN AuthResult(cfg.allowUndefinedMessages, FALSE, "undefined")
    ELSE IF m # 0 /\ cfg.contentScriptOriginPermissions[m][1] # <<>>
    THEN LET originPermissions == cfg.contentScriptOriginPermissions[m][2]
             relevantPermissions ==
                 IF isBroadcast THEN originPermissions.canSend
                 ELSE IF StartsWith(messageType, RequestPrefix)
                      THEN originPermissions.canHandle
                      ELSE originPermissions.canSend IN
         IF BroadcastDenied(isBroadcast, originPermissions)
         THEN AuthResult(FALSE, FALSE, "origin-broadcast")
         ELSE IF ~isMessageAllowed(messageType, relevantPermissions)
         THEN AuthResult(FALSE, FALSE, "origin-type")
         ELSE AuthResult(TRUE, FALSE, "origin")
    ELSE IF kind = "inherited"
    THEN \* permissions.canBroadcast is undefined; so are canHandle and
         \* canSend, and allowedPatterns.includes throws a TypeError
         IF isBroadcast
         THEN AuthResult(FALSE, FALSE, "role-broadcast")
         ELSE AuthResult(FALSE, TRUE, "TypeError")
    ELSE LET permissions == cfg.permissions[componentType]
             relevantPermissions ==
                 RoleRelevantPermissions(messageType, permissions) IN
         IF BroadcastDenied(isBroadcast, permissions)
         THEN AuthResult(FALSE, FALSE, "role-broadcast")
         ELSE IF ~isMessageAllowed(messageType, relevantPermissions)
         THEN AuthResult(FALSE, FALSE, "role-type")
         ELSE AuthResult(TRUE, FALSE, "role")

AuthNoOut == [op |-> "none", result |-> AuthResult(FALSE, FALSE, "none")]

\* new ExtensionAuthorizationProvider() and no call made on it
AuthIdle ==
    /\ authConfig = AuthConstructor([hasPermissions |-> FALSE, permissions |-> <<>>,
                                     allowUndefinedMessages |-> FALSE,
                                     enforceContentScriptOrigins |-> TRUE,
                                     contentScriptOriginPermissions |-> <<>>])
    /\ authInput = <<>>
    /\ authOut = AuthNoOut

\* await provider.checkPermission(messageType, context, isBroadcast)
Auth_checkPermission ==
    /\ authOut.op = "none"
    /\ authOut' = [op |-> "check",
                   result |-> checkPermission(authConfig, authInput.messageType,
                                              authInput.context,
                                              authInput.isBroadcast)]
    /\ UNCHANGED <<authConfig, authInput>>

\* isMessageAllowed(messageType, allowedPatterns)
Auth_isMessageAllowed ==
    /\ authOut.op = "none"
    /\ authOut' = [op |-> "match",
                   result |-> AuthResult(isMessageAllowed(authInput.messageType,
                                                          authInput.allowedPatterns),
                                         FALSE, "match")]
    /\ UNCHANGED <<authConfig, authInput>>

(***************************************************************************)
(* Specifications.  The transports are separate objects with disjoint      *)
(* state: each specification runs one kind of transport and leaves the     *)
(* others as constructed.                                                  *)
(***************************************************************************)
\* the ChromeTransport left alone by the other specifications is constructed
\* with the default reconnect: true
ChromeIdle == ChromeInit /\ config.reconnect

Init == ExtInit /\ ChromeInit /\ NatsInit /\ RouterInit /\ ServerIdle /\ AuthIdle

InitIdleChrome == ExtInit /\ ChromeIdle /\ NatsInit /\ RouterInit /\ ServerIdle /\ AuthIdle

\* the requesting side: a ChromeExtensionTransport of a content script, which
\* close() cuts off from inbound messages (SpecRequests has the background
\* transport, whose port listeners outlive close())
InitExt == ExtInit /\ ChromeIdle /\ NatsInit /\ RouterInit /\ ServerContent /\ AuthIdle

SpecExt ==
    InitExt /\ [][ExtNext /\ UNCHANGED <<chromeVars, natsVars, routerVars, authVars, dispatchVars, natsInVars>>]_vars

SpecResponses ==
    InitExt /\ [][ResponsesNext /\ UNCHANGED <<chromeVars, natsVars, routerVars, authVars, dispatchVars, natsInVars>>]_vars

SpecChrome ==
    Init /\ [][ChromeNext /\ UNCHANGED <<extVars, natsVars, routerVars, serverVars, authVars, dispatchVars, natsInVars>>]_vars

SpecNats ==
    InitIdleChrome /\ [][NatsNext /\ UNCHANGED <<extVars, chromeVars, routerVars, serverVars, authVars, dispatchVars, natsInVars>>]_vars

\* a NatsTransport that is connected and disconnected, with the messages
\* the server delivers to it
NatsTrafficNext ==
    \/ NatsConnectionCalls /\ natsIn' = InFlight /\ UNCHANGED messageCallback
    \/ (\E c \in DOMAIN natsConns : Nats_statusDisconnect(c))
          /\ UNCHANGED messageCallback
    \/ Nats_receive
    \/ \E message \in NatsInbound : Nats_route(message)
    \/ \E k \in natsIn.pending, yielded \in BOOLEAN : Nats_deliver(k, yielded)

SpecNatsTraffic ==
    InitIdleChrome /\ [][NatsTrafficNext /\ UNCHANGED <<extVars, chromeVars, routerVars, serverVars, authVars, dispatchVars>>]_vars

\* one ChromeTransport or one NatsTransport: a behaviour follows one of the
\* two objects from its construction
ChromePristine ==
    /\ port = 0 /\ ~isConnected /\ reconnectAttempts = 0
    /\ connectPromise = "null" /\ reconnectTimers = <<>> /\ ports = <<>>
    /\ retriesMade = 0 /\ chromeOut = NoOut

NatsPristine ==
    /\ natsConns = <<>> /\ connectPc = "idle" /\ disconnects = EmptyBag
    /\ ~connected /\ ~connecting /\ ~raced /\ natsOut = NatsNoOut

\* one event and one request handed to send()
NatsProbes ==
    {[type |-> t, requestId |-> NoId, replyTo |-> NoReplyTo] :
        t \in {<<"event", ":", "saved">>, <<"getUser">>}}

TransportsNext ==
    \/ NatsPristine /\ ChromeNext
          /\ UNCHANGED <<extVars, natsVars, routerVars, serverVars, authVars, dispatchVars, natsInVars>>
    \/ ChromePristine
          /\ (\/ NatsCallsWith(NatsProbes)
              \/ \E c \in DOMAIN natsConns : Nats_statusDisconnect(c))
          /\ UNCHANGED <<extVars, chromeVars, routerVars, serverVars, authVars, dispatchVars, natsInVars>>

SpecTransports == Init /\ [][TransportsNext]_vars

\* a ChromeTransport constructed with reconnect: false, its connection only
\* opened, closed and lost, with the traffic its port delivers
InitRouter ==
    ExtInit /\ ChromeInit /\ ~config.reconnect /\ NatsInit /\ RouterInit /\ ServerIdle /\ AuthIdle

RouterIdle ==
    /\ routerOut' = RouterNoOut
    /\ UNCHANGED <<eventHandlers, subs, unsubscribed, requestHandlers, jobs>>

EventTypes == {"t1", "t2"}

\* the connection of the transport is opened, closed and lost
ConnectionNext ==
    \/ Chrome_connect(TRUE)
    \/ \E eventSuppressed \in BOOLEAN : Chrome_disconnect(eventSuppressed)
    \/ \E p \in DOMAIN ports : PortRemoteClose(p)
    \/ \E p \in DOMAIN ports : Chrome_onDisconnect(p)

\* the connection of the transport is opened and closed
OpenCloseNext ==
    \/ Chrome_connect(TRUE)
    \/ Chrome_disconnect(FALSE)

EventsNext ==
    \/ OpenCloseNext /\ RouterIdle
    \/ \E t \in EventTypes : Chrome_subscribe(t) /\ UNCHANGED chromeVars
    \/ \E i \in DOMAIN subs : Chrome_unsubscribe(i) /\ UNCHANGED chromeVars
    \/ \E t \in EventTypes, payload \in Payloads, throwing \in SUBSET (DOMAIN subs) :
            Chrome_handleEvent(t, payload, throwing) /\ UNCHANGED chromeVars

SpecEvents ==
    InitRouter /\ [][EventsNext /\ UNCHANGED <<extVars, natsVars, serverVars, authVars, dispatchVars, natsInVars>>]_vars

\* the calls a handler makes on the transport while it runs: none,
\* subscribe(type, ...) or the unsubscribe function of a subscription
HandlerCalls ==
    {[op |-> "none", type |-> "none", sub |-> 0]}
    \cup {[op |-> "subscribe", type |-> t, sub |-> 0] : t \in EventTypes}
    \cup {[op |-> "unsubscribe", type |-> "none", sub |-> i] : i \in 1..MaxSubs}

\* events dispatched handler by handler; between two dispatches the
\* application subscribes and unsubscribes, and the connection is opened and
\* closed.  The dispatch of one message is synchronous: until it is over
\* nothing runs but the handlers it calls
DispatchNext ==
    \/ ~dispatch.active /\ OpenCloseNext /\ RouterIdle /\ UNCHANGED dispatch
    \/ \E t \in EventTypes :
          ~dispatch.active /\ Chrome_subscribe(t) /\ UNCHANGED <<chromeVars, dispatch>>
    \/ \E i \in DOMAIN subs :
          ~dispatch.active /\ Chrome_unsubscribe(i) /\ UNCHANGED <<chromeVars, dispatch>>
    \/ \E t \in EventTypes : Dispatch_begin(t) /\ UNCHANGED chromeVars
    \/ \E call \in HandlerCalls : Dispatch_invoke(call) /\ UNCHANGED chromeVars
    \/ Dispatch_end /\ UNCHANGED chromeVars

SpecDispatch ==
    InitRouter /\ [][DispatchNext /\ UNCHANGED <<extVars, natsVars, serverVars, authVars, natsInVars>>]_vars

\* a ChromeTransport as in InitRouter with no subscription, handler or request
RouterPristine ==
    /\ ChromePristine /\ subs = <<>> /\ requestHandlers = {} /\ jobs = <<>>
    /\ routerOut = RouterNoOut

\* a ChromeExtensionTransport nothing was called on
ServerPristine ==
    /\ responseHandlers = EmptyMap /\ messageHandlers = {} /\ requests = <<>>
    /\ listening
    /\ inbound = "none" /\ extJobs = <<>> /\ extBroadcasts = <<>>
    /\ serverOut = ServerNoOut

\* one ChromeTransport or one ChromeExtensionTransport serving requests: the
\* handlers are registered and removed, requests arrive, the handlers settle
InitRequests ==
    /\ ExtInit /\ ChromeInit /\ ~config.reconnect /\ NatsInit /\ RouterInit
    /\ ServerInit /\ extConfig.componentType = "background"
    /\ AuthIdle

ChromeRequestsNext ==
    \/ ConnectionNext /\ RouterIdle
    \/ \E t \in ReqTypes : Chrome_registerRequestHandler(t) /\ UNCHANGED chromeVars
    \/ \E t \in ReqTypes : Chrome_unregisterRequestHandler(t) /\ UNCHANGED chromeVars
    \/ \E t \in ReqTypes, q \in RequestIds \cup {NoId} :
            Chrome_handleRequest(t, q) /\ UNCHANGED chromeVars
    \/ \E j \in DOMAIN jobs, outcome \in HandlerOutcomes :
            Chrome_handlerSettles(j, outcome)
    \/ \E j \in DOMAIN jobs : Chrome_catchBlock(j)

ExtRequestsNext ==
    \/ \E type \in MsgTypes : Ext_onMessage(type)
    \/ \E type \in MsgTypes : Ext_offMessage(type)
    \/ Ext_close
    \/ \E msg \in RequestMessages, sendResponse \in BOOLEAN :
            Ext_handleIncomingMessage(msg, sendResponse)
    \/ \E j \in DOMAIN extJobs, outcome \in HandlerOutcomes, sendThrows \in BOOLEAN :
            Ext_handlerSettles(j, outcome, sendThrows)
    \/ \E j \in DOMAIN extJobs, sendThrows \in BOOLEAN : Ext_catchCallback(j, sendThrows)

RequestsNext ==
    \/ ServerPristine /\ ChromeRequestsNext /\ UNCHANGED <<extVars, serverVars>>
    \/ RouterPristine /\ ExtRequestsNext /\ UNCHANGED <<chromeVars, routerVars>>

SpecRequests == InitRequests /\ [][RequestsNext /\ UNCHANGED <<natsVars, authVars, dispatchVars, natsInVars>>]_vars

\* one ChromeTransport publishing and receiving events, or one
\* ChromeExtensionTransport sending and broadcasting
InitPublish ==
    /\ ExtInit /\ ChromeInit /\ ~config.reconnect /\ NatsInit /\ RouterInit
    /\ ServerInit /\ extConfig.handleResponses
    /\ AuthIdle

ChromePublishNext ==
    \/ Chrome_connect(TRUE) /\ RouterIdle
    \/ Chrome_disconnect(FALSE) /\ RouterIdle
    \/ (\E p \in DOMAIN ports : PortRemoteClose(p)) /\ RouterIdle
    \/ \E t \in EventTypes : Chrome_subscribe(t) /\ UNCHANGED chromeVars
    \/ \E t \in EventTypes, payload \in Payloads, throwing \in SUBSET (DOMAIN subs) :
            Chrome_handleEvent(t, payload, throwing) /\ UNCHANGED chromeVars
    \/ \E t \in EventTypes, payload \in Payloads : Chrome_publish(t, payload)

\* the tab lists chrome.tabs.query can return
TabLists == UNION {[1..n -> Deliveries \cup {NoTabId}] : n \in 0..MaxTabs}

\* the tab lists of at most one tab, and the one recipient of a transport that
\* is not a background transport
OneTabLists == {tabs \in TabLists : Len(tabs) <= 1}

\* send(), close() and broadcast(), whose sendMessage calls a background
\* transport makes once chrome.tabs.query has settled with one of the lists
ExtBroadcastWith(lists) ==
    \/ \E m \in Messages, throws \in BOOLEAN : Ext_send(m[1], m[2], throws)
    \/ Ext_close
    \/ \E m \in Messages, recipients \in OneTabLists :
            Ext_broadcast(m[1], m[2], recipients)
    \/ \E b \in DOMAIN extBroadcasts, tabs \in lists : Ext_tabsQueried(b, tabs)
    \/ \E b \in DOMAIN extBroadcasts : Ext_tabsQueryRejects(b)

ExtBroadcastNext == ExtBroadcastWith(TabLists)

\* one ChromeExtensionTransport sending and broadcasting to every tab list
SpecBroadcast == InitPublish /\ [][ExtBroadcastNext /\ UNCHANGED <<chromeVars, routerVars, natsVars, authVars, dispatchVars, natsInVars>>]_vars

\* a ChromeExtensionTransport that has no request pending and no broadcast
\* under way
NothingSent == requests = <<>> /\ extBroadcasts = <<>>

\* a ChromeExtensionTransport that has no handler registered or running
NothingHandled == messageHandlers = {} /\ extJobs = <<>>

\* the events of a ChromeTransport, or a ChromeExtensionTransport that
\* sends and broadcasts (its tab query finds at most one tab), or one that
\* receives the messages other transports broadcast: these reach its
\* listener as every application message does, and the listener hands over a
\* sendResponse
PublishNext ==
    \/ ServerPristine /\ ChromePublishNext /\ UNCHANGED <<extVars, serverVars>>
    \/ /\ RouterPristine /\ NothingHandled
       /\ ExtBroadcastWith(OneTabLists) /\ UNCHANGED <<chromeVars, routerVars>>
    \/ /\ RouterPristine /\ NothingSent
       /\ ExtRequestsNext /\ UNCHANGED <<chromeVars, routerVars>>

SpecPublish == InitPublish /\ [][PublishNext /\ UNCHANGED <<natsVars, authVars, dispatchVars, natsInVars>>]_vars

\* PermissionSets of the configurations: '*' lists without the right to
\* broadcast, pattern lists with it, and everything
StarNoBroadcast == PermissionSet({}, {Star}, FALSE)

SettingsOnly ==
    PermissionSet({<<"request", ":", "*">>}, {<<"settings", ":", "*">>}, TRUE)

Open == PermissionSet({Star}, {Star}, TRUE)

\* a content role that may send 'page:*' and 'settings:get'
PageAndGet ==
    PermissionSet({}, {<<"page", ":", "*">>, <<"settings", ":", "get">>}, FALSE)

\* config.permissions: absent, or one component type with its PermissionSet
RolePermissions ==
    {[hasPermissions |-> FALSE, permissions |-> <<>>]}
    \cup {[hasPermissions |-> TRUE, permissions |-> [content |-> ps]] :
             ps \in {StarNoBroadcast, SettingsOnly, PageAndGet}}
    \cup {[hasPermissions |-> TRUE, permissions |-> [popup |-> Open]]}

\* keys of contentScriptOriginPermissions: the prefixes '' and 'a' and the
\* wildcard patterns 'a*' and '.*'
OriginKeys == {<<>>, <<"a">>, <<"a", "*">>, <<".", "*">>}

\* contentScriptOriginPermissions: up to MaxOrigins entries under distinct keys
RECURSIVE OriginMaps(_)
OriginMaps(n) ==
    IF n = 0 THEN {<<>>}
    ELSE OriginMaps(n - 1)
         \cup {Append(m, <<k, ps>>) :
                  m \in {m1 \in OriginMaps(n - 1) : Len(m1) = n - 1},
                  k \in OriginKeys, ps \in {StarNoBroadcast, SettingsOnly}}

DistinctKeys(m) == \A i, j \in DOMAIN m : i # j => m[i][1] # m[j][1]

AuthConfigs ==
    {AuthConstructor([hasPermissions |-> r.hasPermissions,
                      permissions |-> r.permissions,
                      allowUndefinedMessages |-> a,
                      enforceContentScriptOrigins |-> e,
                      contentScriptOriginPermissions |-> m]) :
        r \in RolePermissions, a \in BOOLEAN, e \in BOOLEAN,
        m \in {m1 \in OriginMaps(MaxOrigins) : DistinctKeys(m1)}}

\* the contexts of a call: meta.componentType or, without it, user.roles; and
\* context.source (empty: absent): 'ax', 'b' and 'a' followed by a line feed
AuthContexts ==
    {[componentType |-> c, roles |-> r, source |-> s] :
        c \in {Absent, "content", "popup", "background", "constructor",
              "__proto__"},
        r \in {<<>>, <<"content">>},
        s \in {<<>>, <<"a", "x">>, <<"b">>, <<"a", "\n">>}}

AuthMessageTypes ==
    {<<"settings", ":", "get">>, <<"settings", ":", "update">>,
     <<"page", ":", "read">>, <<"request", ":", "settings">>}

AuthInputs ==
    {[messageType |-> t, context |-> c, isBroadcast |-> b] :
        t \in AuthMessageTypes,
        c \in {c1 \in AuthContexts : c1.componentType # Absent => c1.roles = <<>>},
        b \in BOOLEAN}

\* one provider and one checkPermission call on it
InitAuth ==
    /\ ExtInit /\ ChromeIdle /\ NatsInit /\ RouterInit /\ ServerIdle
    /\ authConfig \in AuthConfigs
    /\ authInput \in AuthInputs
    /\ authOut = AuthNoOut

SpecAuth ==
    InitAuth /\ [][Auth_checkPermission
                   /\ UNCHANGED <<extVars, chromeVars, natsVars, routerVars,
                                  serverVars, dispatchVars, natsInVars>>]_vars

\* the tokens message types and patterns are spelled with
Tokens == {"settings", "page", "get", ":", "*"}

\* the strings of 1..n tokens
RECURSIVE Strings(_)
Strings(n) ==
    IF n = 0 THEN {}
    ELSE {<<t>> : t \in Tokens}
         \cup Strings(n - 1)
         \cup {Append(s, t) : s \in Strings(n - 1), t \in Tokens}

\* patterns of every form: the wildcard, prefix wildcards, exact types, and
\* stars in other places
PatternForms ==
    {Star, <<"settings", ":", "*">>, <<"page", ":", "*">>, <<":", "*">>,
     <<"settings", ":", "get">>, <<"settings", "*">>, <<"*", ":", "get">>,
     <<"settings", ":">>}

MatcherInputs ==
    {[messageType |-> t, allowedPatterns |-> ps] :
        t \in Strings(MaxTokens),
        ps \in {ps1 \in SUBSET PatternForms : Cardinality(ps1) <= MaxPatterns}}

\* one isMessageAllowed call
InitMatcher ==
    /\ ExtInit /\ ChromeIdle /\ NatsInit /\ RouterInit /\ ServerIdle
    /\ authConfig = AuthConstructor([hasPermissions |-> FALSE, permissions |-> <<>>,
                                     allowUndefinedMessages |-> FALSE,
                                     enforceContentScriptOrigins |-> TRUE,
                                     contentScriptOriginPermissions |-> <<>>])
    /\ authInput \in MatcherInputs
    /\ authOut = AuthNoOut

SpecMatcher ==
    InitMatcher /\ [][Auth_isMessageAllowed
                      /\ UNCHANGED <<extVars, chromeVars, natsVars, routerVars,
                                     serverVars, dispatchVars, natsInVars>>]_vars

(***************************************************************************)
(* Claims about ChromeExtensionTransport (checked under SpecExt).          *)
(***************************************************************************)
\* the request that owns the entry under key k
Owner(k) == responseHandlers[k]

HasEntry(r) == \E k \in DOMAIN responseHandlers : responseHandlers[k] = r

TimerPending(req) == req.timer = "armed"

\* C1: the resolve and reject callbacks of a request are invoked at most once
\* in total, whatever the interleaving of timeout, chrome callback, inbound
\* response and close().
C1_AtMostOnce ==
    \A r \in DOMAIN requests : requests[r].calls <= 1

\* C2: no request is left unsettled with nothing that can still settle it
\* (an armed timer, an outstanding chrome callback, or a table entry an
\* inbound response can still reach).
C2_NoLeak ==
    \A r \in DOMAIN requests :
        ~Settled(requests[r]) =>
            \/ TimerPending(requests[r])
            \/ requests[r].cb = "pending"
            \/ HandlerReachable /\ HasEntry(r)

\* C3: a request whose timeout (armed with the fixed 30000 ms) has fired,
\* no response and no chrome.runtime.lastError having come before, was
\* rejected with the timeout error naming its message type, and it owns no
\* entry of the pending-request table.
C3_TimeoutRejects ==
    \A r \in DOMAIN requests :
        /\ requests[r].delay = 30000
        /\ requests[r].timer = "fired" =>
              /\ Outcome(requests[r]) =
                    [kind |-> "reject", val |-> TimeoutError(requests[r].type)]
              /\ ~HasEntry(r)

\* C4: close() rejects every outstanding request with ConnectionClosed and
\* leaves the pending-request table empty.
C4_CloseDrains ==
    [][Ext_close =>
        /\ responseHandlers' = EmptyMap
        /\ \A r \in DOMAIN requests :
              HasEntry(r) =>
                Outcome(requests'[r]) =
                    [kind |-> "reject", val |-> <<"ConnectionClosed">>]]_vars

\* C5: an inbound response whose correlationId is a key of the table removes
\* that entry, cancels the owner's timeout for good and settles the owner:
\* rejected with the response's error, otherwise resolved with its payload.
C5_MatchedResponseSettles ==
    [][/\ \A msg \in InMessages :
            ( /\ msg.ns /\ msg.type = ResponseType
              /\ msg.correlationId \in DOMAIN responseHandlers
              /\ \E sendResponse \in BOOLEAN :
                    Ext_handleIncomingMessage(msg, sendResponse) )
            => LET r == Owner(msg.correlationId) IN
               /\ msg.correlationId \notin DOMAIN responseHandlers'
               /\ requests'[r].timer = "cleared"
               /\ ~Settled(requests[r])
               /\ Outcome(requests'[r]) =
                    IF msg.error # NoErr
                    THEN [kind |-> "reject", val |-> msg.error]
                    ELSE [kind |-> "resolve", val |-> msg.payload]
       /\ \A r \in DOMAIN requests :
            requests[r].timer = "cleared" => requests'[r].timer = "cleared"]_vars

\* C6 as claimed: an inbound response whose correlationId is no key of the
\* table invokes no callback and no message handler and changes nothing.
C6_UnmatchedDropped_Original ==
    [][\A msg \in InMessages :
            ( /\ inbound' # "none"
              /\ msg.ns /\ msg.type = ResponseType
              /\ msg.correlationId \notin DOMAIN responseHandlers
              /\ \E sendResponse \in BOOLEAN :
                    Ext_handleIncomingMessage(msg, sendResponse) )
            => /\ UNCHANGED <<responseHandlers, requests, messageHandlers>>
               /\ inbound' # "handled"]_vars

\* C6 as amended: an inbound response that carries a correlationId which is
\* no key of the table is dropped: no callback, no message handler, the
\* table unchanged.
C6_UnmatchedDropped ==
    [][\A msg \in InMessages :
            ( /\ inbound' # "none"
              /\ msg.ns /\ msg.type = ResponseType
              /\ msg.correlationId # NoId
              /\ msg.correlationId \notin DOMAIN responseHandlers
              /\ \E sendResponse \in BOOLEAN :
                    Ext_handleIncomingMessage(msg, sendResponse) )
            => /\ UNCHANGED <<responseHandlers, requests, messageHandlers>>
               /\ inbound' = "dropped"]_vars

\* a response is dropped after a request timed out, with a handler registered
\* under the reserved type
C6_Witness ==
    /\ inbound = "dropped"
    /\ ResponseType \in messageHandlers
    /\ \E r \in DOMAIN requests :
        requests[r].timer = "fired" /\ requests[r].id \notin DOMAIN responseHandlers

\* C7: every unsettled request owns the entry under its own id, and no two
\* unsettled requests share an id.
C7_OutstandingOwnsEntry ==
    /\ \A r \in DOMAIN requests :
        ~Settled(requests[r]) =>
            /\ requests[r].id \in DOMAIN responseHandlers
            /\ Owner(requests[r].id) = r
    /\ \A r1, r2 \in DOMAIN requests :
        (r1 # r2 /\ ~Settled(requests[r1]) /\ ~Settled(requests[r2]))
            => requests[r1].id # requests[r2].id

\* the requests a step settles
SettledBy == {r \in DOMAIN requests : ~Settled(requests[r]) /\ Settled(requests'[r])}

\* C8: an inbound response whose correlationId is a key of the
\* pending-request table settles exactly the request that owns that entry
\* (whose id is that correlationId); every other request, entry and timer is
\* left as it was, and a message that matches no entry settles no request.
C8_ResponseByCorrelationId ==
    [][\A msg \in InMessages :
            ( /\ inbound' # "none"
              /\ \E sendResponse \in BOOLEAN :
                    Ext_handleIncomingMessage(msg, sendResponse) ) =>
              /\ SettledBy =
                    IF /\ msg.ns /\ msg.type = ResponseType
                       /\ msg.correlationId \in DOMAIN responseHandlers
                    THEN {Owner(msg.correlationId)} ELSE {}
              /\ \A r \in DOMAIN requests :
                    requests'[r] # requests[r] =>
                        /\ msg.type = ResponseType
                        /\ requests[r].id = msg.correlationId
                        /\ msg.correlationId \in DOMAIN responseHandlers
                        /\ Owner(msg.correlationId) = r
              /\ \A k \in DOMAIN responseHandlers :
                    k # msg.correlationId =>
                        k \in DOMAIN responseHandlers' /\ responseHandlers'[k] = Owner(k)
              /\ DOMAIN responseHandlers' \subseteq DOMAIN responseHandlers]_vars

(***************************************************************************)
(* Claims about ChromeTransport and NatsTransport (SpecTransports).        *)
(***************************************************************************)
ChromeConnected == isConnected /\ port # 0

\* C9: sending while the transport is not connected fails with the
\* not-connected error and writes nothing on the channel, for ChromeTransport
\* (sendRequest, publish) and NatsTransport (send); a transport that never
\* connected, that just returned from disconnect() or that was just told of
\* the channel loss is not connected.
C9_SendWhileDisconnected ==
    [][/\ \A kind \in {"sendRequest", "publish"} :
            (Chrome_send(kind) /\ ~ChromeConnected)
            => /\ chromeOut'.result = "NotConnected"
               /\ ~chromeOut'.posted
               /\ UNCHANGED <<port, isConnected, ports>>
       /\ (/\ natsOut'.op = "send"
           /\ nats = 0 \/ ~connected
           /\ Nats_send(natsOut'.message))
            => /\ natsOut'.result = "NotConnected"
               /\ natsOut'.published = "none"
       /\ (ports = <<>> \/ chromeOut.op \in {"disconnect", "onDisconnect"})
            => ~ChromeConnected
       /\ natsConns = <<>> => (nats = 0 /\ ~connected)
       /\ (natsOut.op = "disconnect" /\ natsOut.result = "resolved") => nats = 0
       /\ natsOut.op = "status" => ~connected]_vars

\* a NatsTransport told of the channel loss refuses to send
C9_Witness ==
    /\ natsOut.op = "send"
    /\ natsOut.result = "NotConnected"
    /\ nats # 0
    /\ natsConns[nats] = "open"
    /\ ~connected

\* C10: connect() on a connected transport resolves without opening another
\* channel and leaves the connection state and the held port / connection
\* unchanged, for ChromeTransport and NatsTransport.
C10_ConnectIdempotent ==
    [][/\ \A ok \in BOOLEAN :
            (Chrome_connect(ok) /\ ChromeConnected)
            => /\ chromeOut'.result = "resolved"
               /\ ~chromeOut'.connectCalled
               /\ UNCHANGED <<port, isConnected, ports, reconnectAttempts,
                              reconnectTimers, connectPromise>>
       /\ (Nats_connect /\ connected)
            => /\ natsOut'.result = "resolved"
               /\ ~natsOut'.connectCalled
               /\ UNCHANGED <<nats, connected, connecting, connectPc, natsConns,
                              natsSubs, subscriptions, statusLoops>>
       /\ isConnected => port # 0]_vars

\* a second connect() on a connected ChromeTransport
C10_Witness ==
    /\ chromeOut.op = "connect"
    /\ chromeOut.result = "resolved"
    /\ ~chromeOut.connectCalled
    /\ ChromeConnected
    /\ Len(ports) = 1
    /\ ports[port] = "open"

(***************************************************************************)
(* Claims about connection management of NatsTransport and ChromeTransport.*)
(***************************************************************************)
\* C11: a NatsTransport.connect() call made while an earlier connect() is in
\* flight joins that attempt: the call stays pending (to settle as the
\* attempt does) and opens no second connection.
C11_ConcurrentConnectJoins ==
    [][(Nats_connect /\ connecting /\ ~connected)
            => /\ natsOut'.result = "pending"
               /\ ~natsOut'.connectCalled
               /\ UNCHANGED <<connecting, connectPc, natsConns>>]_vars

\* C12: a ChromeTransport has at most one connection attempt in flight, a
\* scheduled reconnect timer counting as one: never two pending reconnect
\* timers, never a pending reconnect timer while the transport holds a port.
C12_SingleAttempt ==
    /\ Len(reconnectTimers) <= 1
    /\ Len(reconnectTimers) = 1 => port = 0

\* the delay of the n-th automatic retry
BackoffDelay(n) == config.initialDelayMs * Pow(config.backoffFactor, n - 1)

\* C13: with reconnect enabled and the channel refusing every attempt, the
\* n-th retry timer (delay initialDelayMs * backoffFactor^(n-1)) re-attempts
\* to open the channel when it fires, and the failure of that attempt
\* schedules retry n+1 while n < maxRetries and nothing after that.
C13_RetryReattempts ==
    [][\A i \in DOMAIN reconnectTimers :
            ( /\ config.reconnect
              /\ Len(reconnectTimers) = 1
              /\ ~ChromeConnected
              /\ Chrome_reconnectTimer(i, FALSE) )
            => /\ reconnectTimers[i] = BackoffDelay(reconnectAttempts)
               /\ chromeOut'.connectCalled
               /\ reconnectTimers' =
                    IF reconnectAttempts < config.maxRetries
                    THEN <<BackoffDelay(reconnectAttempts + 1)>> ELSE <<>>]_vars

\* C14: the automatic reconnect attempts made since the last successful
\* connection never exceed maxRetries, and neither does the retry counter;
\* once maxRetries of them have failed no further retry timer is scheduled
\* and only an explicit connect() brings the transport back to Connected.
C14_RetryBudget ==
    [][/\ retriesMade' <= config.maxRetries
       /\ reconnectAttempts' <= config.maxRetries
       /\ retriesMade >= config.maxRetries =>
            /\ Len(reconnectTimers') <= Len(reconnectTimers)
            /\ (~ChromeConnected /\ ChromeConnected') => chromeOut'.op = "connect"]_vars

\* C15: on a transport left Disconnected by a failed attempt to open the
\* channel, an explicit connect() that the channel accepts opens the channel:
\* the transport becomes Connected and the returned promise resolves.
C15_ExplicitConnectRetries ==
    [][( /\ chromeOut.connectCalled /\ chromeOut.result = "rejected"
         /\ ~ChromeConnected
         /\ Chrome_connect(TRUE) )
        => /\ chromeOut'.connectCalled
           /\ chromeOut'.result = "resolved"
           /\ ChromeConnected']_vars

\* C16: when the port held by a Connected transport reports the loss of the
\* channel, the transport leaves Connected and releases the port; with
\* reconnect enabled one retry is scheduled, and when that retry fires and
\* the channel accepts, the transport is Connected again over a new port;
\* with reconnect disabled nothing is scheduled.
C16_ChannelLossRecovers ==
    [][/\ \A p \in DOMAIN ports :
            (ChromeConnected /\ p = port /\ Chrome_onDisconnect(p))
            => /\ ~ChromeConnected' /\ port' = 0
               /\ reconnectTimers' =
                    IF config.reconnect
                    THEN Append(reconnectTimers, BackoffDelay(1))
                    ELSE reconnectTimers
       /\ \A i \in DOMAIN reconnectTimers :
            ( /\ chromeOut.op = "onDisconnect" /\ ~ChromeConnected
              /\ Chrome_reconnectTimer(i, TRUE) )
            => /\ chromeOut'.connectCalled
               /\ ChromeConnected'
               /\ port' = Len(ports) + 1 /\ ports'[port'] = "open"]_vars

\* C18: disconnect() cancels the pending retry: a retry timer that fires
\* after disconnect() returned, with no connect() call in between, opens no
\* channel and leaves the transport Disconnected.
C18_DisconnectCancelsRetry ==
    [][\A i \in DOMAIN reconnectTimers, ok \in BOOLEAN :
            (chromeOut.op = "disconnect" /\ Chrome_reconnectTimer(i, ok))
            => /\ ~chromeOut'.connectCalled
               /\ ~ChromeConnected']_vars

\* C19: once a connect() and a disconnect() called while that connect() was
\* in flight have both completed, the NatsTransport is not connected and
\* holds no open connection and no live subscription.
C19_DisconnectWinsRace ==
    (raced /\ connectPc = "idle" /\ disconnects = EmptyBag)
        => /\ ~connected
           /\ nats = 0 \/ natsConns[nats] # "open"
           /\ \A i \in DOMAIN subscriptions : ~natsSubs[subscriptions[i]].active

\* C20: disconnect() completes without error from every state; afterwards
\* the transport is not connected and holds no port, a held port having been
\* disconnected exactly once; on a transport that is already disconnected
\* the call changes nothing.
C20_DisconnectIdempotent ==
    [][\A eventSuppressed \in BOOLEAN :
            Chrome_disconnect(eventSuppressed)
            => /\ chromeOut'.result = "resolved"
               /\ ~isConnected' /\ port' = 0
               /\ chromeOut'.portDisconnected = (port # 0)
               /\ ~ChromeConnected =>
                    UNCHANGED <<port, isConnected, reconnectAttempts,
                                connectPromise, reconnectTimers, ports>>]_vars

(***************************************************************************)
(* ChromeTransport event subscriptions (SpecEvents)                        *)
(***************************************************************************)
\* the subscribe() calls for eventType whose unsubscribe function has not
\* been called, in the order of the calls
LiveSubscriptions(eventType) ==
    SelectSeq([i \in DOMAIN subs |-> i],
              LAMBDA i : subs[i].type = eventType /\ i \notin unsubscribed)

\* C21: the function subscribe() returned removes exactly the subscription it
\* was returned for: after it is called that subscription is in no handler
\* set, and every other subscription, of the same event type or another one,
\* stays where it was, in the same order.
C21_UnsubscribeRemovesExactlyOne ==
    [][\A i \in DOMAIN subs :
          (routerOut'.op = "unsubscribe" /\ Chrome_unsubscribe(i)) =>
              \A t \in EventTypes :
                  /\ HandlersFor(t)' = SetDelete(HandlersFor(t), i)
                  /\ HandlersFor(t)' = LiveSubscriptions(t)']_vars

\* an unsubscribe function was called while another subscription of the same
\* event type and one of the other type were live, and all of them remain
C21_Witness ==
    /\ routerOut.op = "unsubscribe"
    /\ \E i \in unsubscribed :
          /\ routerOut.invoked = <<i>>
          /\ \E j \in DOMAIN subs :
                /\ j # i /\ subs[j].type = subs[i].type
                /\ j \in Range(HandlersFor(subs[j].type))
          /\ \E j \in DOMAIN subs :
                /\ subs[j].type # subs[i].type
                /\ j \in Range(HandlersFor(subs[j].type))

\* C22: an inbound message of type 'event:T' invokes every handler currently
\* subscribed to T exactly once with the payload of the message, in the order
\* of the subscribe() calls, and no handler subscribed to another event type.
C22_EventReachesSubscribers ==
    [][\A t \in EventTypes, payload \in Payloads, throwing \in SUBSET (DOMAIN subs) :
          (/\ routerOut'.op = "event" /\ routerOut'.type = t
           /\ routerOut'.threw = throwing
           /\ Chrome_handleEvent(t, payload, throwing)) =>
              /\ routerOut'.invoked = LiveSubscriptions(t)
              /\ routerOut'.payload = payload
              /\ \A k, l \in DOMAIN routerOut'.invoked :
                    k < l => routerOut'.invoked[k] < routerOut'.invoked[l]
              /\ \A k \in DOMAIN routerOut'.invoked :
                    subs[routerOut'.invoked[k]].type = t]_vars

\* an event reached the two handlers of its type, subscribed before and after
\* a handler of the other type that is still subscribed
C22_Witness ==
    /\ routerOut.op = "event"
    /\ routerOut.invoked = <<1, 3>>
    /\ subs[2].type # routerOut.type
    /\ 2 \notin unsubscribed

\* C23: when a subscribed handler throws during the dispatch of an inbound
\* event, the handlers subscribed after it for that type are still invoked,
\* no exception leaves the port's message listener, and the connection state
\* and the handler sets are as they were.
C23_ThrowingHandlerIsolated ==
    [][\A t \in EventTypes, payload \in Payloads, throwing \in SUBSET (DOMAIN subs) :
          (/\ throwing # {}
           /\ routerOut'.op = "event" /\ routerOut'.type = t
           /\ routerOut'.threw = throwing
           /\ Chrome_handleEvent(t, payload, throwing)) =>
              /\ routerOut'.invoked = HandlersFor(t)
              /\ routerOut'.threw = throwing
              /\ ~routerOut'.escaped
              /\ UNCHANGED <<eventHandlers, config, port, isConnected,
                             reconnectAttempts, connectPromise, reconnectTimers,
                             ports>>]_vars

\* the first of two handlers of an event type threw and the second was invoked
C23_Witness ==
    /\ routerOut.op = "event"
    /\ Len(routerOut.invoked) >= 2
    /\ routerOut.invoked[1] \in routerOut.threw
    /\ isConnected

(***************************************************************************)
(* Broadcast and publish (SpecBroadcast, SpecPublish)                      *)
(***************************************************************************)
\* the recipients of a tab list whose delivery fails
Failing(tabs) == {k \in DOMAIN tabs : HasTabId(tabs[k]) /\ tabs[k] # "delivered"}

\* C24: a broadcast over N recipients (the tabs that have an id) of which
\* any subset F fails attempts delivery to each of the N, does not fail, and
\* reports exactly |F| failures.
C24_BroadcastIsolation ==
    [][\A b \in DOMAIN extBroadcasts :
          LET tabs == serverOut'.recipients IN
          (/\ serverOut'.op = "tabs"
           /\ Ext_tabsQueried(b, tabs)) =>
              /\ serverOut'.attempted = SelectSeq(tabs, HasTabId)
              /\ serverOut'.result = "resolved"
              /\ serverOut'.reported = Cardinality(Failing(tabs))]_vars

\* a broadcast over three tabs, the second failing, next to a pending request
\* with the id of the broadcast message
C24_ThreeTabs ==
    /\ serverOut.op = "tabs"
    /\ serverOut.recipients = <<"delivered", "rejects", "delivered">>
    /\ serverOut.attempted = serverOut.recipients
    /\ serverOut.id \in DOMAIN responseHandlers

\* the message publish(eventType, payload) is to write
EventMessage(eventType, payload) ==
    [type |-> <<"event:", eventType>>, payload |-> payload, requestId |-> NoId]

\* C25: publish(eventType, payload), on a connected ChromeTransport whose
\* port takes the message, writes exactly one message of type
\* 'event:<eventType>' with the payload and no requestId; broadcast adds no
\* entry to the pending-request table and arms no timeout; an inbound event
\* message causes no response to be sent: a ChromeTransport writes nothing
\* on an event, a ChromeExtensionTransport calls no sendResponse for a
\* message another transport broadcast.
C25_FireAndForget ==
    [][/\ \A t \in EventTypes, payload \in Payloads :
             (/\ routerOut'.op = "publish"
              /\ isConnected /\ port # 0 /\ ports[port] = "open"
              /\ Chrome_publish(t, payload)) =>
                 routerOut'.posted = <<EventMessage(t, payload)>>
       /\ \A m \in Messages :
             (/\ serverOut'.op = "broadcast"
              /\ Ext_broadcast(m[1], m[2], serverOut'.recipients)) =>
                 UNCHANGED <<responseHandlers, requests>>
       /\ \A b \in DOMAIN extBroadcasts :
             (/\ serverOut'.op = "tabs"
              /\ (\/ Ext_tabsQueried(b, serverOut'.recipients)
                  \/ Ext_tabsQueryRejects(b))) =>
                 UNCHANGED <<responseHandlers, requests>>
       /\ \A t \in EventTypes, payload \in Payloads :
             (/\ routerOut'.op = "event"
              /\ Chrome_handleEvent(t, payload, routerOut'.threw)) =>
                 /\ routerOut'.posted = <<>>
                 /\ UNCHANGED <<ports, chromeOut>>
       /\ \A j \in DOMAIN extJobs :
             (/\ serverOut'.op \in {"settle", "catch"}
              /\ \E outcome \in HandlerOutcomes, sendThrows \in BOOLEAN :
                    \/ Ext_handlerSettles(j, outcome, sendThrows)
                    \/ Ext_catchCallback(j, sendThrows)) =>
                 /\ serverOut'.calls = 0
                 /\ serverOut'.posted = <<>>]_vars

(***************************************************************************)
(* Request handlers (SpecRequests)                                         *)
(***************************************************************************)
\* the one response a ChromeTransport request is to be answered with
ExpectedChromeResponse(job, ok) ==
    <<[type |-> <<job.type, "_response">>, requestId |-> job.requestId,
       kind |-> IF ok THEN "result" ELSE "error"]>>

\* the one response a ChromeExtensionTransport message is to be answered with
ExpectedExtResponse(job, ok) ==
    <<[type |-> "response", correlationId |-> job.id,
       kind |-> IF ok THEN "result" ELSE "error"]>>

\* C26: for every inbound request with a registered handler exactly one
\* response is sent, correlated to the request ('<type>_response' with the
\* requestId; 'response' with correlationId = id), carrying the result when
\* the handler succeeds and an error when it throws or rejects.  Stated for
\* the handlers that settle while the transport can respond (ChromeTransport
\* connected over an open port; ChromeExtensionTransport given a working
\* sendResponse, handleResponses not false), and for what the catch block of
\* a handler that succeeded sends.
C26_OneCorrelatedResponse ==
    [][/\ \A j \in DOMAIN jobs, outcome \in HandlerOutcomes :
             (/\ routerOut'.op = "settle"
              /\ SendOutcome = "sent"
              /\ Chrome_handlerSettles(j, outcome)) =>
                 routerOut'.posted =
                     ExpectedChromeResponse(jobs[j], outcome = "resolves")
       /\ \A j \in DOMAIN jobs :
             (/\ routerOut'.op = "settle"
              /\ routerOut'.posted # <<>>
              /\ Chrome_catchBlock(j)) =>
                 routerOut'.posted = ExpectedChromeResponse(jobs[j], TRUE)
       /\ \A j \in DOMAIN extJobs, outcome \in HandlerOutcomes :
             (/\ serverOut'.op = "settle"
              /\ extJobs[j].sendResponse
              /\ extConfig.handleResponses
              /\ Ext_handlerSettles(j, outcome, FALSE)) =>
                 serverOut'.posted =
                     ExpectedExtResponse(extJobs[j], outcome = "resolves")]_vars

(***************************************************************************)
(* ExtensionAuthorizationProvider (SpecAuth, SpecMatcher)                  *)
(***************************************************************************)
\* the reference matcher: '*', the type itself, or '<prefix>:*' for a type
\* that begins with '<prefix>:'
RefAllowed(type, patterns) ==
    \/ <<"*">> \in patterns
    \/ type \in patterns
    \/ \E p \in patterns : \E n \in 0..Len(p) :
          /\ p = SubSeq(p, 1, n) \o <<":", "*">>
          /\ Len(type) >= n + 1
          /\ SubSeq(type, 1, n + 1) = SubSeq(p, 1, n) \o <<":">>

\* C27: for an actor whose component type has no PermissionSet,
\* checkPermission does not throw and its result is allowed exactly when
\* allowUndefinedMessages is set, whatever the message type and operation.
C27_UndefinedRoleDefault ==
    (/\ authOut.op = "check"
     /\ ComponentTypeOf(authInput.context) \notin DOMAIN authConfig.permissions) =>
        /\ ~authOut.result.threw
        /\ authOut.result.isAuthorized = authConfig.allowUndefinedMessages

\* the actor gives an origin and a key of the override map matches it
SomeOriginMatches ==
    /\ authInput.context.source # <<>>
    /\ \E k \in DOMAIN authConfig.contentScriptOriginPermissions :
          OriginMatches(authConfig.contentScriptOriginPermissions[k][1],
                        authInput.context.source)

\* the first key, in declaration order, that matches, and its PermissionSet
FirstMatchingEntry ==
    LET keys == authConfig.contentScriptOriginPermissions
        k == CHOOSE k1 \in DOMAIN keys :
                /\ OriginMatches(keys[k1][1], authInput.context.source)
                /\ \A l \in DOMAIN keys :
                      OriginMatches(keys[l][1], authInput.context.source) => k1 <= l IN
    keys[k]

FirstMatchingKey == FirstMatchingEntry[1]

FirstMatching == FirstMatchingEntry[2]

\* what a PermissionSet alone decides for a message type and an operation
DecidedBy(ps, type, isBroadcast) ==
    /\ isBroadcast => ps.canBroadcast
    /\ RefAllowed(type, IF ~isBroadcast /\ SubSeq(type, 1, 2) = <<"request", ":">>
                        THEN ps.canHandle ELSE ps.canSend)

\* the configuration with other role-based PermissionSets and no key but the
\* first matching one
OnlyFirstMatching(permissions) ==
    [authConfig EXCEPT !.permissions = permissions,
                       !.contentScriptOriginPermissions =
                            << << FirstMatchingKey, FirstMatching >> >>]

\* C28: when an override map is configured and the origin of the actor
\* matches a key, the result is decided by the PermissionSet of the first
\* matching key alone: it is what that set decides, and it stays the same
\* when the role-based set is replaced and every other key removed.  Stated
\* for the checks that consult the map: an actor of component type 'content'
\* that has a role-based set, on a provider that enforces origins.
C28_FirstOriginDecides ==
    (/\ authOut.op = "check"
     /\ SomeOriginMatches
     /\ authConfig.enforceContentScriptOrigins
     /\ ComponentTypeOf(authInput.context) = "content"
     /\ "content" \in DOMAIN authConfig.permissions) =>
        /\ authOut.result.isAuthorized =
              DecidedBy(FirstMatching, authInput.messageType,
                        authInput.isBroadcast)
        /\ \A ps \in {Open, StarNoBroadcast, SettingsOnly} :
              checkPermission(OnlyFirstMatching([content |-> ps]),
                              authInput.messageType, authInput.context,
                              authInput.isBroadcast) = authOut.result

\* the applicable PermissionSet: that of the first matching origin key
\* where the override map is consulted and a key matches the origin, the
\* role-based one otherwise
OverrideApplies ==
    /\ authConfig.enforceContentScriptOrigins
    /\ ComponentTypeOf(authInput.context) = "content"
    /\ SomeOriginMatches

Applicable ==
    IF OverrideApplies THEN FirstMatching
    ELSE authConfig.permissions[ComponentTypeOf(authInput.context)]

\* the pattern list of the applicable set a broadcast is matched against:
\* canSend under an origin override; by role canHandle for a 'request:...'
\* type and canSend for any other
ApplicableList ==
    IF ~OverrideApplies /\ SubSeq(authInput.messageType, 1, 2) = <<"request", ":">>
    THEN Applicable.canHandle ELSE Applicable.canSend

\* C29: a broadcast is rejected whenever the applicable PermissionSet has
\* canBroadcast = false, whatever its pattern lists hold; with canBroadcast
\* true it is allowed only if the message type matches the applicable list.
C29_BroadcastNeedsCanBroadcast ==
    (/\ authOut.op = "check"
     /\ authInput.isBroadcast
     /\ ComponentTypeOf(authInput.context) \in DOMAIN authConfig.permissions) =>
        /\ ~authOut.result.threw
        /\ ~Applicable.canBroadcast => ~authOut.result.isAuthorized
        /\ (Applicable.canBroadcast /\ authOut.result.isAuthorized) =>
              RefAllowed(authInput.messageType, ApplicableList)

\* C30: isMessageAllowed(type, patterns) is true exactly when patterns holds
\* '*', or holds type, or holds some '<prefix>:*' with type beginning with
\* '<prefix>:'; no other wildcard form matches.
C30_MatcherEqualsReference ==
    authOut.op = "match" =>
        authOut.result.isAuthorized =
            RefAllowed(authInput.messageType, authInput.allowedPatterns)

\* 'settings:get' was allowed by ['settings:*'] alone
C30_Witness ==
    /\ authOut.op = "match"
    /\ authInput.messageType = <<"settings", ":", "get">>
    /\ authInput.allowedPatterns = {<<"settings", ":", "*">>}
    /\ authOut.result.isAuthorized

\* 'page:get' was refused by ['settings:*', 'settings*']
C30_OtherFormsRefused ==
    /\ authOut.op = "match"
    /\ authInput.messageType = <<"page", ":", "get">>
    /\ authInput.allowedPatterns = {<<"settings", ":", "*">>, <<"settings", "*">>}
    /\ ~authOut.result.isAuthorized

\* the role-based PermissionSet of the actor
RoleSet == authConfig.permissions[ComponentTypeOf(authInput.context)]

\* a check that is not a broadcast, by an actor whose role has a
\* PermissionSet and to whom no origin override applies
RoleSendCheck ==
    /\ authOut.op = "check"
    /\ ~authInput.isBroadcast
    /\ ComponentTypeOf(authInput.context) \in DOMAIN authConfig.permissions
    /\ ~OverrideApplies

\* C31 as stated: such a check allows message type t exactly when t matches
\* the role's canSend under the pattern rules, for every message type t.
C31_SendMatchesCanSend_Original ==
    RoleSendCheck =>
        authOut.result.isAuthorized =
            RefAllowed(authInput.messageType, RoleSet.canSend)

\* C31, amended: such a check allows a message type t that does not begin
\* with 'request:' exactly when t matches the role's canSend, and a type that
\* begins with 'request:' exactly when it matches the role's canHandle; for
\* role 'content' with canSend = ['page:*', 'settings:get'],
\* 'settings:update' is denied and 'page:read' is allowed.
C31_SendMatchesCanSend ==
    RoleSendCheck =>
        /\ ~authOut.result.threw
        /\ authOut.result.isAuthorized =
              RefAllowed(authInput.messageType,
                         IF SubSeq(authInput.messageType, 1, 2) = <<"request", ":">>
                         THEN RoleSet.canHandle ELSE RoleSet.canSend)
        /\ (/\ ComponentTypeOf(authInput.context) = "content"
            /\ RoleSet.canSend = {<<"page", ":", "*">>, <<"settings", ":", "get">>}) =>
              /\ authInput.messageType = <<"settings", ":", "update">> =>
                    ~authOut.result.isAuthorized
              /\ authInput.messageType = <<"page", ":", "read">> =>
                    authOut.result.isAuthorized

\* 'settings:update' was denied to a content script whose role may send
\* 'page:*' and 'settings:get'
C31_Witness ==
    /\ RoleSendCheck
    /\ ComponentTypeOf(authInput.context) = "content"
    /\ RoleSet.canSend = {<<"page", ":", "*">>, <<"settings", ":", "get">>}
    /\ authInput.messageType = <<"settings", ":", "update">>
    /\ ~authOut.result.isAuthorized

\* 'page:read' was allowed to the same role
C31_PageReadAllowed ==
    /\ RoleSendCheck
    /\ ComponentTypeOf(authInput.context) = "content"
    /\ RoleSet.canSend = {<<"page", ":", "*">>, <<"settings", ":", "get">>}
    /\ authInput.messageType = <<"page", ":", "read">>
    /\ authOut.result.isAuthorized

(***************************************************************************)
(* Claims about the traffic and the connections of NatsTransport.          *)
(***************************************************************************)
\* the transport is connected: it holds a connection, the connection is open
\* and this.connected is set
NatsLive == nats # 0 /\ connected /\ natsConns[nats] = "open"

\* C32: send() on a connected NatsTransport publishes exactly once: a
\* message of type 'event:<E>' to '<events base>.<E>' with no reply subject,
\* any other message of type T to '<requests base>.<T>'; the requestId of
\* the message, when it has one, is the 'requestId' header, and headers
\* without one are sent otherwise.
C32_SendRoutesByType ==
    [][(natsOut'.op = "send" /\ NatsLive) =>
          LET m == natsOut'.message
              isEvent == Len(m.type) >= 2 /\ m.type[1] = "event" /\ m.type[2] = ":" IN
          /\ natsOut'.result = "sent"
          /\ Len(natsOut'.calls) = 1
          /\ natsOut'.calls[1].requestId = m.requestId
          /\ isEvent =>
                /\ <<"messaging.events", ".">> \o [i \in 1..(Len(m.type) - 2) |-> m.type[i + 2]]
                       = natsOut'.calls[1].subject
                /\ natsOut'.calls[1].reply = NoReplyOption
          /\ ~isEvent =>
                /\ <<"messaging.requests", ".">> \o m.type = natsOut'.calls[1].subject
                /\ natsOut'.calls[1].reply \in {"", m.replyTo}
          /\ UNCHANGED <<nats, connected, natsConns, natsSubs, subscriptions>>]_vars

\* the event 'event:saved' with requestId 'r1' and a replyTo went out to
\* 'messaging.events.saved' with no reply subject and the header
C32_Witness ==
    /\ natsOut.op = "send"
    /\ natsOut.message = [type |-> <<"event", ":", "saved">>, requestId |-> "r1",
                          replyTo |-> "inbox.1"]
    /\ natsOut.calls = << [subject |-> <<"messaging.events", ".", "saved">>,
                           reply |-> NoReplyOption, requestId |-> "r1"] >>

\* the request 'getUser' went out to 'messaging.requests.getUser'
C32_RequestPublished ==
    /\ natsOut.op = "send"
    /\ natsOut.message.type = <<"getUser">>
    /\ natsOut.calls = << [subject |-> <<"messaging.requests", ".", "getUser">>,
                           reply |-> "", requestId |-> NoId] >>

(***************************************************************************)
(* The connection state machine of ChromeTransport.                        *)
(***************************************************************************)
\* the state of the specified machine a ChromeTransport is in between two
\* calls: Connected while it holds a port it takes for connected,
\* Reconnecting while a retry timer is pending, Disconnected otherwise.  An
\* attempt runs inside one connect() call, so that Connecting is passed
\* through within a step.
ConnectionState ==
    IF isConnected /\ port # 0 THEN "Connected"
    ELSE IF reconnectTimers # <<>> THEN "Reconnecting"
    ELSE "Disconnected"

\* C33: the connection state of a ChromeTransport changes only along the edges
\* of the specified machine: from Disconnected by connect() (through
\* Connecting, to Connected, or to Reconnecting or Disconnected when the
\* attempt fails), from Reconnecting by the retry timer (through Connecting),
\* from Connected to Reconnecting or Disconnected by the loss of the channel,
\* and from any state to Disconnected by disconnect().
C33_OnlySpecifiedEdges ==
    [][LET from == ConnectionState
           to == ConnectionState'
           op == chromeOut'.op IN
       /\ op = "disconnect" => to = "Disconnected"
       /\ from # to =>
             \/ op = "disconnect"
             \/ from = "Disconnected" /\ op = "connect"
             \/ from = "Reconnecting" /\ op = "retry"
             \/ /\ from = "Connected"
                /\ op \in {"onDisconnect", "sendRequest", "publish"}
                /\ to \in {"Reconnecting", "Disconnected"}]_vars

\* C34: the pending-request table and the armed timeout timers agree in every
\* reachable state: the timer of each entry is armed and the entry is stored
\* under the id of its request, and a request without an entry has no armed
\* timeout timer.
C34_TableAndTimersAgree ==
    /\ \A k \in DOMAIN responseHandlers :
          /\ requests[responseHandlers[k]].timer = "armed"
          /\ requests[responseHandlers[k]].id = k
    /\ \A r \in DOMAIN requests :
          requests[r].timer = "armed" =>
              \E k \in DOMAIN responseHandlers : responseHandlers[k] = r

\* the component types a configuration of these providers may name in
\* config.permissions
NamedTypes == {"content", "popup"}

\* C35: a provider constructed with permissions for some component types
\* keeps the default PermissionSet of every other type, and a 'background'
\* actor, which no configuration names, may send, handle and broadcast every
\* message type.
C35_DefaultsKept ==
    authOut.op = "check" =>
        /\ ComponentTypeOf(authInput.context) = "background" =>
              authOut.result.isAuthorized
        /\ \A ct \in DOMAIN DefaultPermissions \ NamedTypes :
              /\ ct \in DOMAIN authConfig.permissions
              /\ authConfig.permissions[ct] = DefaultPermissions[ct]

(***************************************************************************)
(* Dispatch of one event while its handlers subscribe and unsubscribe      *)
(* (SpecDispatch).                                                         *)
(***************************************************************************)
\* C36: the dispatch of one inbound event invokes exactly the handlers that
\* were subscribed to its type when the message arrived, in their order, and
\* ends after them: while it runs the handlers invoked so far are the first
\* of those, and when it is over they are all of those, whatever the
\* handlers subscribe or unsubscribe meanwhile.
C36_DispatchOverArrivalSet ==
    /\ dispatch.active =>
          /\ Len(dispatch.invoked) <= Len(dispatch.arrived)
          /\ dispatch.invoked = SubSeq(dispatch.arrived, 1, Len(dispatch.invoked))
    /\ dispatch.done => dispatch.invoked = dispatch.arrived

\* the provider with no origin-override map configured
WithoutOverrides == [authConfig EXCEPT !.contentScriptOriginPermissions = <<>>]

\* C37: when the PermissionSet of the origin key that applies to a content
\* script equals the PermissionSet of its role, the check allows what it
\* allows with no override map configured, for every message type, broadcast
\* or not.
C37_OverrideEqualToRole ==
    (/\ authOut.op = "check"
     /\ ComponentTypeOf(authInput.context) \in DOMAIN authConfig.permissions
     /\ OverrideApplies
     /\ FirstMatching = RoleSet) =>
        authOut.result.isAuthorized =
            checkPermission(WithoutOverrides, authInput.messageType,
                            authInput.context, authInput.isBroadcast).isAuthorized

\* the same call by an actor that gives no origin
WithoutSource == [authInput.context EXCEPT !.source = <<>>]

\* C38: for an actor whose component type is not 'content', or on a provider
\* that does not enforce content script origins, the result of
\* checkPermission is the one the provider gives with no override map and no
\* origin: it is the same for every origin and every override map.
C38_OverridesOnlyForContent ==
    (/\ authOut.op = "check"
     /\ \/ ComponentTypeOf(authInput.context) # "content"
        \/ ~authConfig.enforceContentScriptOrigins) =>
        authOut.result =
            checkPermission(WithoutOverrides, authInput.messageType,
                            WithoutSource, authInput.isBroadcast)

\* a popup whose origin matches a key that forbids broadcasts was allowed to
\* broadcast by its role, on a provider that enforces origins
C38_Witness ==
    /\ authOut.op = "check"
    /\ ComponentTypeOf(authInput.context) = "popup"
    /\ "popup" \in DOMAIN authConfig.permissions
    /\ authConfig.enforceContentScriptOrigins
    /\ SomeOriginMatches
    /\ authInput.isBroadcast
    /\ ~FirstMatching.canBroadcast
    /\ authOut.result.isAuthorized

\* a content script whose origin matches a key that forbids broadcasts was
\* allowed to broadcast by its role, on a provider that does not enforce
\* origins
C38_EnforcementOff ==
    /\ authOut.op = "check"
    /\ ComponentTypeOf(authInput.context) = "content"
    /\ "content" \in DOMAIN authConfig.permissions
    /\ ~authConfig.enforceContentScriptOrigins
    /\ SomeOriginMatches
    /\ authInput.isBroadcast
    /\ ~FirstMatching.canBroadcast
    /\ authOut.result.isAuthorized

\* C39: a delivered message reaches the receive callback as a 'response' only
\* when it is the reply to a request, never when it is a request or an event
\* published with a requestId header; and a delivered event causes exactly
\* one callback invocation, of type 'event:<E>'.
C39_ResponsesAreReplies ==
    natsIn.op = "deliver" =>
        /\ \A k \in DOMAIN natsIn.callbacks :
              natsIn.callbacks[k].type = <<"response">> =>
                  natsIn.message.kind = "reply"
        /\ ( /\ natsIn.message.kind = "event"
             /\ natsIn.pending = {}
             /\ natsIn.registered /\ ~natsIn.dropped ) =>
              /\ Len(natsIn.callbacks) = 1
              /\ natsIn.callbacks[1].type =
                    <<"event", ":", natsIn.message.subject[3]>>

\* the connections that are open, and the subscriptions of a subject filter
\* that are active on an open connection
OpenConnections == {c \in DOMAIN natsConns : natsConns[c] = "open"}

OpenSubscriptions(filter) ==
    {k \in DOMAIN natsSubs :
        /\ natsSubs[k].subject = filter
        /\ natsSubs[k].active
        /\ natsConns[natsSubs[k].conn] = "open"}

\* C40: a NatsTransport has at most one open connection, at most one
\* response subscription and at most one event subscription at any time, and
\* none of them once disconnect() has returned.
C40_SingleConnection ==
    /\ Cardinality(OpenConnections) <= 1
    /\ \A filter \in {"responses", "events"} :
          Cardinality(OpenSubscriptions(filter)) <= 1
    /\ (natsOut.op = "disconnect" /\ natsOut.result = "resolved") =>
          /\ OpenConnections = {}
          /\ \A filter \in {"responses", "events"} : OpenSubscriptions(filter) = {}

====
